---- MODULE Spec2Model ----
(***************************************************************************)
(* The Git change poller (buildbot.changes.gitpoller.GitPoller) as a state *)
(* machine: one poll is PollBegin (git --version, init, ls-remote, branch  *)
(* selection, fetch), then per selected branch RevParse and                *)
(* ProcessChanges (git log), one EmitChange per new commit, and Finish     *)
(* (cursor replacement and persistence).  The remote repository, the       *)
(* reconfiguration of the poller and the restart of the service are the    *)
(* environment.                                                            *)
(*                                                                         *)
(* Shas are the commits 1..MaxCommit of a fixed commit graph (0 stands for *)
(* "no such ref"); a ref name is the sequence of its path components, so   *)
(* that refs/heads/master is <<"refs", "heads", "master">> and the short   *)
(* name master is <<"master">>.                                            *)
(***************************************************************************)
EXTENDS Integers, Sequences, FiniteSets, TLC

\* Bounds of the model.
MaxCommit == 3
MaxPolls == 2
MaxLifeCommit == 2
MaxLifePolls == 4
MaxPredCommit == 2
MaxAllCommit == 2
MaxSshPolls == 2
MaxCalls == 2
MaxTwoCommit == 3
MaxTwoPolls == 2
MaxTermCommit == 2
MaxTermPolls == 2

REPOURL == "git@example.com:~foo/baz.git"

\* The repourl as it appears in a ref name (urlquote).
REPOURL_QUOTED == "git%40example.com%3A%7Efoo%2Fbaz.git"

HeadMaster == <<"refs", "heads", "master">>
HeadRelease == <<"refs", "heads", "release">>

\* The refs the remote may carry.
RemoteRefs == {HeadMaster, HeadRelease}

\* A remote that also has a tag and a pull ref.
TagV1 == <<"refs", "tags", "v1">>
PullHead == <<"refs", "pull", "410", "head">>
MixedRefs == {HeadMaster, TagV1, PullHead}

\* The short names an explicit branch list may name, in sorted() order.
NameOrder == << <<"master">>, <<"release">> >>

EmptyMap == << >>

----------------------------------------------------------------------------
\* The commit graph of the remote repository and what git computes on it.

Commits == 1..MaxCommit

\* 1 <- 2 <- 3 is a chain, 4 forks off 2, later commits continue from 4.
Parent(c) == IF c = 4 THEN 2 ELSE c - 1

RECURSIVE Reach(_)
Reach(c) == IF c = 0 THEN {} ELSE {c} \cup Reach(Parent(c))

IsAncestor(a, b) == a \in Reach(b)

RECURSIVE Descending(_)
Descending(S) ==
    IF S = {} THEN << >>
    ELSE LET m == CHOOSE x \in S : \A y \in S : y <= x
         IN <<m>> \o Descending(S \ {m})

\* A poller that hands git log its exclusions largest first.
ExcludesLargestFirst(S) == Descending(S)

RECURSIVE Ascending(_)
Ascending(S) ==
    IF S = {} THEN << >>
    ELSE LET m == CHOOSE x \in S : \A y \in S : x <= y
         IN <<m>> \o Ascending(S \ {m})

Range(f) == {f[k] : k \in DOMAIN f}

\* git log --format=%H <new> ^e1 ^e2 ... : the commits reachable from new
\* and from no exclude, newest first.
GitLog(new, excludes) ==
    Descending(Reach(new) \ UNION {Reach(e) : e \in excludes})

RECURSIVE Reverse(_)
Reverse(s) == IF s = << >> THEN << >> ELSE Reverse(Tail(s)) \o <<Head(s)>>

----------------------------------------------------------------------------
\* Ref names.

_headsFilter(branch) ==
    Len(branch) > 2 /\ branch[1] = "refs" /\ branch[2] = "heads"

_removeHeads(branch) ==
    IF _headsFilter(branch) THEN SubSeq(branch, 3, Len(branch)) ELSE branch

\* The local ref a branch is mirrored under:
\* refs/buildbot/<quoted url>/<short>.
_trackerBranch(branch) == <<"refs", "buildbot", REPOURL_QUOTED>> \o _removeHeads(branch)

\* The remote ref a fetch source <src> names.
RemoteRefOf(branch) ==
    LET src == _removeHeads(branch)
    IN IF src[1] = "refs" THEN src ELSE <<"refs", "heads">> \o src

----------------------------------------------------------------------------
\* Branch policies: an explicit list of short names, True, or a predicate
\* (given by the set of full refs it accepts).

ListPolicy(names) == [kind |-> "list", names |-> names]
AllPolicy == [kind |-> "all", names |-> {}]
PredPolicy(accept) == [kind |-> "pred", names |-> accept]

Policies ==
    {ListPolicy({<<"master">>, <<"release">>}), AllPolicy, PredPolicy({HeadMaster})}

RECURSIVE Filter(_, _)
Filter(s, S) ==
    IF s = << >> THEN << >>
    ELSE IF Head(s) \in S THEN <<Head(s)>> \o Filter(Tail(s), S)
         ELSE Filter(Tail(s), S)

SeqRange(s) == {s[j] : j \in 1..Len(s)}

\* The orders in which ls-remote may list the refs present on the remote.
Orders(S) ==
    {s \in [1..Cardinality(S) -> S] : \A j, k \in 1..Cardinality(S) : j # k => s[j] # s[k]}

\* A poller that walks the selected branches from the last to the first.
SelectBranchesBackwards(policy, remote_refs) ==
    IF policy.kind = "all" THEN Reverse(remote_refs)
    ELSE IF policy.kind = "pred" THEN Reverse(Filter(remote_refs, policy.names))
    ELSE Reverse(Filter(NameOrder, policy.names))

\* A poller that polls only the refs under refs/heads/ when branches is
\* True.
SelectBranchesHeadsOnly(policy, remote_refs) ==
    IF policy.kind = "all" THEN Filter(remote_refs, {r \in SeqRange(remote_refs) : _headsFilter(r)})
    ELSE IF policy.kind = "pred" THEN Filter(remote_refs, policy.names)
    ELSE IF remote_refs # << >>
         THEN Filter(NameOrder,
                     policy.names \cap {_removeHeads(r) : r \in SeqRange(remote_refs)})
         ELSE Filter(NameOrder, policy.names)

\* A poller that takes a predicate for True.
SelectBranchesIgnoresPredicate(policy, remote_refs) ==
    IF policy.kind \in {"all", "pred"} THEN remote_refs
    ELSE IF remote_refs # << >>
         THEN Filter(NameOrder,
                     policy.names \cap {_removeHeads(r) : r \in SeqRange(remote_refs)})
         ELSE Filter(NameOrder, policy.names)

\* A poller that never compares an explicit list with the remote refs.
SelectBranchesUnfiltered(policy, remote_refs) ==
    IF policy.kind = "all" THEN remote_refs
    ELSE IF policy.kind = "pred" THEN Filter(remote_refs, policy.names)
    ELSE Filter(NameOrder, policy.names)

\* A poller that keys the branches by short name under every policy.
SelectBranchesShortKeys(policy, remote_refs) ==
    IF policy.kind = "all"
    THEN [j \in 1..Len(remote_refs) |-> _removeHeads(remote_refs[j])]
    ELSE IF policy.kind = "pred"
    THEN [j \in 1..Len(Filter(remote_refs, policy.names)) |->
              _removeHeads(Filter(remote_refs, policy.names)[j])]
    ELSE IF remote_refs # << >>
         THEN Filter(NameOrder,
                     policy.names \cap {_removeHeads(r) : r \in SeqRange(remote_refs)})
         ELSE Filter(NameOrder, policy.names)

\* The branches to poll, in processing order.
SelectBranches(policy, remote_refs) ==
    IF policy.kind = "all" THEN remote_refs
    ELSE IF policy.kind = "pred" THEN Filter(remote_refs, policy.names)
    ELSE IF remote_refs # << >>
         THEN Filter(NameOrder,
                     policy.names \cap {_removeHeads(r) : r \in SeqRange(remote_refs)})
         ELSE Filter(NameOrder, policy.names)

----------------------------------------------------------------------------
VARIABLES
    remote,         \* remote repository: ref -> tip (0: the ref does not exist)
    branchesCfg,    \* self.branches
    buildPushesWithNoCommits,
    lastRev,        \* the cursor: branch key -> last observed tip
    state,          \* the state store of this poller: << >> or [lastRev |-> map]
    mirror,         \* the workdir: tracker ref -> tip, for the tracker refs
                    \* the fetch of the current poll wrote
    pc,             \* "idle", "revparse", "log", "emit"
    running,        \* doPoll.running as seen by the poll
    remote_refs,    \* ls-remote output of the current poll (ref names in order)
    branches,       \* the selected branches of the current poll
    idx,            \* index into branches of the branch being processed
    revs,           \* the cursor being built by the current poll
    newRev,         \* rev-parse output for the current branch
    revList,        \* commits of the current branch still to be submitted
    changesAdded,   \* the changes submitted downstream by the current poll
    cmds,           \* the git commands run by the current poll
    logOut,         \* branch key -> output of its successful git log in the
                    \* current poll
    errors,         \* log.err calls of the current poll
    messages,       \* log.msg calls of the current poll that report a failed
                    \* git command
    result,         \* how the last poll ended
    budget,         \* number of polls still to be started
    preLastRev,     \* the cursor when the current poll started
    preState,       \* the state store when the current poll started
    afterRestart,   \* the current poll is the first after a restart that
                    \* followed a poll without failures
    submitted,      \* every <<branch, sha>> ever submitted downstream
    resubmitted,    \* some <<branch, sha>> was submitted twice
    disturbed,      \* a ref was force-pushed or deleted, the policy changed,
                    \* or a poll was aborted by a metadata failure
    recording,      \* whether submitted, resubmitted and disturbed are kept
    options,        \* the arguments the poller is constructed with
    built,          \* "none", "ok" or "ConfigError": how construction ended
    gitVersion,     \* <<major, minor>> as git --version prints it
    at,             \* the git command poll() has come to, and how far that
                    \* invocation is: [cmd, phase]
    scratch,        \* the credential scratch directory: << >> when it does
                    \* not exist, else its mode and files
    fsLog,          \* PrivateTemporaryDirectory and writeLocalFile calls of
                    \* the current poll, and the removals of the directory
    invocations,    \* the git processes of the current poll with their -c
                    \* options, environment overlay and exit status
    outcome,        \* how the last poll of the credential machine ended
    sshBudget,      \* number of polls still to be started there
    versionStdout,  \* what git --version printed in the current poll, as
                    \* words: << >> when it did not run or failed
    extraction,     \* the calls of the metadata extractors made so far, each
                    \* with its git exit status, its git output and how it
                    \* ended
    fleet           \* two pollers of one master: their repositories, the
                    \* work directory and the state store they share, and
                    \* each poller's own fields

config == <<branchesCfg, buildPushesWithNoCommits>>
cursor == <<lastRev, state>>
local == <<running, remote_refs, branches, idx, revs, newRev, revList>>
hist == <<changesAdded, cmds, logOut, errors, preLastRev, preState, afterRestart, messages>>
life == <<submitted, resubmitted, recording>>
creds == <<options, built, gitVersion, at, scratch, fsLog, invocations, outcome, sshBudget>>

pollvars == <<remote, config, cursor, mirror, pc, local, hist, result, budget, life, disturbed>>

vars == <<pollvars, creds, versionStdout, extraction, fleet>>

----------------------------------------------------------------------------
\* Maps (Python dicts).

Put(f, k, v) == [x \in DOMAIN f \cup {k} |-> IF x = k THEN v ELSE f[x]]

\* A poller that reads back a single entry of the persisted map.
GetLastRevOneEntry(st) ==
    IF "lastRev" \in DOMAIN st /\ DOMAIN st.lastRev # {}
    THEN [k \in {CHOOSE k \in DOMAIN st.lastRev : TRUE} |-> st.lastRev[k]]
    ELSE EmptyMap

\* A poller that does not read the store when it starts.
GetLastRevEmpty(st) == EmptyMap

\* self.getState('lastRev', {})
GetLastRev(st) == IF "lastRev" \in DOMAIN st THEN st.lastRev ELSE EmptyMap

\* One git invocation: subcommand, the branch it is about, further
\* arguments, exit status.
Cmd(name, branch, args, exit) ==
    [cmd |-> name, branch |-> branch, args |-> args, exit |-> exit]

\* A poller that fetches before it lists the refs of the remote.
PrologueFetchFirst(stage, brs, exit) ==
    LET n == CASE stage = "--version" -> 1 [] stage = "init" -> 2
               [] stage = "ls-remote" -> 3 [] OTHER -> 4
        Exit(j) == IF j = n THEN exit ELSE 0
    IN SubSeq(<<Cmd("--version", << >>, << >>, Exit(1)), Cmd("init", << >>, << >>, Exit(2)),
                Cmd("fetch", << >>, brs, Exit(3)), Cmd("ls-remote", << >>, << >>, Exit(4))>>,
              1, n)

\* The commands of a poll up to and including the given stage, the last of
\* them with the given exit status.
Prologue(stage, brs, exit) ==
    LET n == CASE stage = "--version" -> 1 [] stage = "init" -> 2
               [] stage = "ls-remote" -> 3 [] OTHER -> 4
        Exit(j) == IF j = n THEN exit ELSE 0
    IN SubSeq(<<Cmd("--version", << >>, << >>, Exit(1)), Cmd("init", << >>, << >>, Exit(2)),
                Cmd("ls-remote", << >>, << >>, Exit(3)), Cmd("fetch", << >>, brs, Exit(4))>>,
              1, n)

\* A poller that treats no poll as initial.
IsInitialNever(cur) == FALSE

\* A poll is initial when the cursor holds nothing at all: no git log is
\* run and nothing is submitted.
IsInitial(cur) == DOMAIN cur = {}

\* A poller that passes no exclusion to git log.
ExcludesNone(cur) == {}

\* The exclusions of git log: ^<sha> for every sha in the cursor.
Excludes(cur) == Range(cur)

\* A poller that forgets to install the map it built.
FinalCursorKeep(cur, rv) == cur

\* A poller that merges the map it built into the cursor (dict.update).
FinalCursorUpdate(cur, rv) ==
    [k \in DOMAIN cur \cup DOMAIN rv |-> IF k \in DOMAIN rv THEN rv[k] ELSE cur[k]]

\* self.lastRev = revs: the entries of the polled branches replace the cursor.
FinalCursor(cur, rv) == rv

Stages == {"--version", "init", "ls-remote", "fetch"}

Present(rem) == {r \in DOMAIN rem : rem[r] # 0}

\* git fetch +<src>:<tracker> for every selected branch.  Only the tracker
\* refs written by the fetch of the current poll are kept: no other is ever
\* read.
Fetch(rem, brs) ==
    [t \in {_trackerBranch(brs[j]) : j \in 1..Len(brs)} |->
        LET j == CHOOSE j \in 1..Len(brs) : _trackerBranch(brs[j]) = t
        IN rem[RemoteRefOf(brs[j])]]

\* A poller that labels the change with the branch key as it is.
ChangeFullRef(branch, rev) ==
    [branch |-> branch, revision |-> rev, repository |-> REPOURL, src |-> "git"]

\* The change record handed to the downstream ingest.
Change(branch, rev) ==
    [branch |-> _removeHeads(branch), revision |-> rev,
     repository |-> REPOURL, src |-> "git"]

\* No private key.
NoKey == << >>

\* GitPoller(repourl): no branch option, no SSH option.
DefaultOptions ==
    [branch |-> FALSE, branches |-> FALSE, only_tags |-> FALSE, fetch_refspec |-> FALSE,
     sshPrivateKey |-> NoKey, host |-> "none"]

\* poll() is not running a git command.
Idle == [cmd |-> "idle", phase |-> "before"]

\* The poller of the other specifications: GitPoller(repourl) without SSH
\* options, git 1.7.5.
NoCredentials ==
    /\ options = DefaultOptions
    /\ built = "ok"
    /\ gitVersion = <<1, 7>>
    /\ at = Idle
    /\ scratch = << >>
    /\ fsLog = << >>
    /\ invocations = << >>
    /\ outcome = "none"
    /\ sshBudget = 0

\* No version read.
NoVersion == << >>

\* The version word of the git --version output, read as <<major, minor>>;
\* a word that is no dotted number gives no version.
ParseDotted(w) ==
    CASE w = "1.7.5" -> <<1, 7>>
      [] w = "2.3.0" -> <<2, 3>>
      [] w = "2.9.0" -> <<2, 9>>
      [] w = "2.10.0" -> <<2, 10>>
      [] OTHER -> NoVersion

\* The version word git prints for a version.
Dotted(v) ==
    CASE v = <<1, 7>> -> "1.7.5"
      [] v = <<2, 3>> -> "2.3.0"
      [] v = <<2, 9>> -> "2.9.0"
      [] v = <<2, 10>> -> "2.10.0"

\* git version <major>.<minor>.<patch>
VersionText(v) == <<"git", "version", Dotted(v)>>

\* Outputs of git --version that carry no version of git.
BadOutputs ==
    {<<"Command", "not", "found">>, <<"git">>, <<"git", "version">>,
     <<"git", "version", "unknown">>, <<"hub", "version", "2.3.0">>}

\* A parser that takes the last word for the version, whatever comes
\* before it.
parseGitFeaturesLastWord(out) ==
    IF out # << >> THEN ParseDotted(out[Len(out)]) ELSE NoVersion

\* parseGitFeatures: the output has to begin with "git version" and to
\* carry a dotted version after it.
parseGitFeatures(out) ==
    IF Len(out) >= 3 /\ out[1] = "git" /\ out[2] = "version"
    THEN ParseDotted(out[3])
    ELSE NoVersion

\* Two pollers of one master.  Each polls the master branch of its own
\* repository into the work directory both use, and keeps its state in the
\* state store both use.
Instances == {"first", "second"}

OTHERURL == "git@example.com:~foo/bar.git"

OTHERURL_QUOTED == "git%40example.com%3A%7Efoo%2Fbar.git"

RepourlOf(i) == IF i = "first" THEN REPOURL ELSE OTHERURL

QuotedOf(i) == IF i = "first" THEN REPOURL_QUOTED ELSE OTHERURL_QUOTED

\* self.name: the repourl unless a name is given.
NameOf(i) == RepourlOf(i)

\* A state store that files every GitPoller under its class alone.
StoreKeyClassOnly(i) == <<"GitPoller">>

\* The object a poller's state is filed under: its name and its class.
StoreKey(i) == <<NameOf(i), "GitPoller">>

\* The ref a poller mirrors master under in the work directory.
TrackerOf(i) == <<"refs", "buildbot", QuotedOf(i), "master">>

\* Both pollers at rest after activation with an empty state store, their
\* repositories being as rem says.
AtRest(rem) ==
    [remotes |-> rem,
     workdir |-> [t \in {TrackerOf(i) : i \in Instances} |-> 0],
     objects |-> [k \in {StoreKey(i) : i \in Instances} |-> << >>],
     lastRev |-> [i \in Instances |-> EmptyMap],
     at      |-> [i \in Instances |-> "idle"],
     newRev  |-> [i \in Instances |-> 0],
     changes |-> [i \in Instances |-> << >>],
     polls   |-> [i \in Instances |-> 0],
     fetched |-> [i \in Instances |-> 0],
     alone   |-> [i \in Instances |-> EmptyMap],
     actor   |-> "none"]

\* The pair of pollers is not in use.
Apart == << >>

\* The poller after construction and activation with an empty state store.
Fresh ==
    /\ lastRev = EmptyMap
    /\ state = << >>
    /\ versionStdout = << >>
    /\ mirror = EmptyMap
    /\ pc = "idle"
    /\ running = TRUE
    /\ remote_refs = << >>
    /\ branches = << >>
    /\ idx = 1
    /\ revs = EmptyMap
    /\ newRev = 0
    /\ revList = << >>
    /\ changesAdded = << >>
    /\ cmds = << >>
    /\ logOut = EmptyMap
    /\ errors = 0
    /\ messages = << >>
    /\ result = "none"
    /\ preLastRev = EmptyMap
    /\ preState = << >>
    /\ afterRestart = FALSE
    /\ submitted = {}
    /\ resubmitted = FALSE
    /\ disturbed = FALSE

Init ==
    /\ remote \in [RemoteRefs -> 0..MaxCommit]
    /\ branchesCfg \in Policies
    /\ buildPushesWithNoCommits \in BOOLEAN
    /\ budget = MaxPolls
    /\ recording = FALSE
    /\ Fresh
    /\ extraction = << >>
    /\ fleet = Apart
    /\ NoCredentials

\* What every entry into poll() resets or records.
EnterPoll ==
    /\ pc = "idle"
    /\ budget > 0
    /\ budget' = budget - 1
    /\ changesAdded' = << >>
    /\ logOut' = EmptyMap
    /\ errors' = 0
    /\ preLastRev' = lastRev
    /\ preState' = state
    /\ afterRestart' = (result = "restarted")
    /\ idx' = 1
    /\ revs' = EmptyMap
    /\ newRev' = 0
    /\ revList' = << >>

\* _checkGitFeatures succeeds: git --version prints what the installed git
\* prints, or something else, and the output parses.
ProbePasses ==
    \E out \in {VersionText(gitVersion)} \cup BadOutputs :
        /\ parseGitFeatures(out) # NoVersion
        /\ versionStdout' = out

\* poll() whose git --version exits with 0 and prints something that is
\* not the version of a git: _checkGitFeatures raises.
PollProbeFail(out) ==
    /\ EnterPoll
    /\ parseGitFeatures(out) = NoVersion
    /\ running' = TRUE
    /\ remote_refs' = << >>
    /\ branches' = << >>
    /\ cmds' = Prologue("--version", << >>, 0)
    /\ versionStdout' = out
    /\ result' = "EnvironmentError"
    /\ messages' = << >>
    /\ pc' = "idle"
    /\ mirror' = EmptyMap
    /\ UNCHANGED <<remote, config, cursor, life, disturbed>>
    /\ UNCHANGED creds
    /\ UNCHANGED <<extraction, fleet>>

\* A _dovccmd that reports every failure as a GitError.
_dovccmdAlwaysGitError(code) == "GitError"

\* _dovccmd: what a git command that exits non-zero raises.
_dovccmd(code) == IF code = 128 THEN "GitError" ELSE "EnvironmentError"

\* A poll() that catches nothing.
CaughtNever(exc) == FALSE

\* poll(): the exceptions of its stages that it catches and logs.
Caught(exc) == exc = "GitError"

\* The message of a GitError: "command '<cmd>' on repourl <url> failed with
\* exit code <code>".
GitErrorMessage(stage, code) == [command |-> stage, repourl |-> REPOURL, code |-> code]

\* poll() ends in a hard failure: git --version, init, ls-remote or fetch
\* exits non-zero.  A GitError is logged and the poll returns; anything
\* else is raised to the caller.
PollFail(stage, code, order) ==
    /\ EnterPoll
    /\ running' = TRUE
    /\ remote_refs' = IF stage = "fetch" THEN order ELSE << >>
    /\ branches' = IF stage = "fetch" THEN SelectBranches(branchesCfg, order) ELSE << >>
    /\ cmds' = Prologue(stage, branches', code)
    /\ IF stage = "--version" THEN versionStdout' = << >> ELSE ProbePasses
    /\ result' = IF Caught(_dovccmd(code)) THEN "returned" ELSE _dovccmd(code)
    /\ messages' = IF Caught(_dovccmd(code)) THEN <<GitErrorMessage(stage, code)>> ELSE << >>
    /\ pc' = "idle"
    /\ mirror' = EmptyMap
    /\ UNCHANGED <<remote, config, cursor, life, disturbed>>
    /\ UNCHANGED creds
    /\ UNCHANGED <<extraction, fleet>>

\* A poll() that does not look at doPoll.running.
LastStageAlwaysFetch(run) == "fetch"

\* The last stage of the prologue of poll(): without doPoll.running the
\* poll returns after ls-remote.
LastStage(run) == IF run THEN "fetch" ELSE "ls-remote"

\* poll() entered while doPoll.running is false: probe, init and ls-remote
\* run, nothing else.
PollNotRunning(order) ==
    /\ EnterPoll
    /\ running' = FALSE
    /\ remote_refs' = order
    /\ branches' = << >>
    /\ cmds' = Prologue(LastStage(running'), branches', 0)
    /\ ProbePasses
    /\ result' = "stopped"
    /\ messages' = << >>
    /\ pc' = "idle"
    /\ mirror' = EmptyMap
    /\ UNCHANGED <<remote, config, cursor, life, disturbed>>
    /\ UNCHANGED creds
    /\ UNCHANGED <<extraction, fleet>>

\* poll() up to and including a successful fetch.
PollBegin(order) ==
    /\ EnterPoll
    /\ running' = TRUE
    /\ remote_refs' = order
    /\ branches' = SelectBranches(branchesCfg, order)
    /\ \A j \in 1..Len(branches') : remote[RemoteRefOf(branches'[j])] # 0
    /\ mirror' = Fetch(remote, branches')
    /\ cmds' = Prologue(LastStage(running'), branches', 0)
    /\ ProbePasses
    /\ result' = "polling"
    /\ messages' = << >>
    /\ pc' = "revparse"
    /\ UNCHANGED <<remote, config, cursor, life, disturbed>>
    /\ UNCHANGED creds
    /\ UNCHANGED <<extraction, fleet>>

\* The step to the next branch of the loop.
NextBranch ==
    /\ idx' = idx + 1
    /\ pc' = "revparse"
    /\ revList' = << >>

\* A poller that drops the entry of a branch whose rev-parse fails.
RevsAfterParseFailureDrop(rv, cur, branch) == rv

\* The map a poll builds when the rev-parse of a branch fails: the branch
\* keeps the entry it had, if it had one.
RevsAfterParseFailure(rv, cur, branch) ==
    IF branch \in DOMAIN cur THEN Put(rv, branch, cur[branch]) ELSE rv

\* A poller whose branch loop is left by a failing rev-parse without the
\* poll being ended.
AfterParseFailureAbandoned(branch) == "abandoned"

\* Where poll() goes on after a failing rev-parse of a branch: the failure
\* is logged and the loop takes the next branch.
AfterParseFailure(branch) == "revparse"

\* git rev-parse of the tracker ref of branches[idx].
RevParse(ok) ==
    /\ pc = "revparse"
    /\ idx <= Len(branches)
    /\ LET branch == branches[idx]
       IN /\ cmds' = Append(cmds, Cmd("rev-parse", branch, << >>, IF ok THEN 0 ELSE 1))
          /\ IF ok
             THEN /\ newRev' = mirror[_trackerBranch(branch)]
                  /\ revs' = Put(revs, branch, newRev')
                  /\ errors' = errors
                  /\ IF IsInitial(lastRev)
                     THEN idx' = idx + 1 /\ pc' = "revparse"
                     ELSE idx' = idx /\ pc' = "log"
             ELSE /\ newRev' = newRev
                  /\ revs' = RevsAfterParseFailure(revs, lastRev, branch)
                  /\ errors' = errors + 1
                  /\ idx' = idx + 1
                  /\ pc' = AfterParseFailure(branch)
    /\ UNCHANGED <<remote, config, cursor, mirror, running, remote_refs, branches,
                   revList, changesAdded, logOut, preLastRev, preState, afterRestart, messages, result,
                   budget, life, disturbed>>
    /\ UNCHANGED creds
    /\ UNCHANGED versionStdout
    /\ UNCHANGED <<extraction, fleet>>

\* A poller that submits the commits in the order git log prints them.
ToSubmitNewestFirst(branch, new, out, cur, bpwnc) ==
    IF out = << >> /\ bpwnc /\ (branch \notin DOMAIN cur \/ cur[branch] # new)
    THEN <<new>>
    ELSE out

\* A poller that leaves the newest commit of the log out.
ToSubmitOlder(branch, new, out, cur, bpwnc) ==
    IF out = << >> /\ bpwnc /\ (branch \notin DOMAIN cur \/ cur[branch] # new)
    THEN <<new>>
    ELSE Reverse(IF out = << >> THEN out ELSE Tail(out))

\* A poller that does not compare the tip with the entry it has before it
\* builds a push without commits.
ToSubmitAlways(branch, new, out, cur, bpwnc) ==
    IF out = << >> /\ bpwnc THEN <<new>> ELSE Reverse(out)

\* A poller that builds a push without commits whatever the flag says.
ToSubmitIgnoresFlag(branch, new, out, cur, bpwnc) ==
    IF out = << >> /\ (branch \notin DOMAIN cur \/ cur[branch] # new)
    THEN <<new>>
    ELSE Reverse(out)

\* A poller that compares the new tip with every entry of the cursor
\* instead of the entry of the branch.
ToSubmitAnyEntry(branch, new, out, cur, bpwnc) ==
    IF out = << >> /\ bpwnc /\ new \notin Range(cur)
    THEN <<new>>
    ELSE Reverse(out)

\* A poller that submits nothing for a branch the cursor has no entry
\* for.
ToSubmitFirstSightingSilent(branch, new, out, cur, bpwnc) ==
    IF branch \notin DOMAIN cur
    THEN << >>
    ELSE IF out = << >> /\ bpwnc /\ cur[branch] # new
         THEN <<new>>
         ELSE Reverse(out)

\* The revisions to submit for a branch, given its git log output: the
\* commits of the log oldest first, or the tip alone for a push without
\* commits.
ToSubmit(branch, new, out, cur, bpwnc) ==
    IF out = << >> /\ bpwnc /\ (branch \notin DOMAIN cur \/ cur[branch] # new)
    THEN <<new>>
    ELSE Reverse(out)

\* A poller that leaves the entry of a branch as it was when its git log
\* fails.
RevAfterLogFailureOld(cur, branch, new) ==
    IF branch \in DOMAIN cur THEN cur[branch] ELSE new

\* The entry a branch gets when its git log fails: the new tip.
RevAfterLogFailure(cur, branch, new) == new

\* A poller that takes the exclusions from the cursor as it was when the
\* poll started.
ExcludeSourceSnapshot(live, atStart) == atStart

\* The map the exclusions are taken from: the cursor as it is when the
\* branch is processed, the entries of the branches processed before it
\* already moved.
ExcludeSource(live, atStart) == live

\* git log for branches[idx] against the tips in the cursor.
ProcessChanges(ok) ==
    /\ pc = "log"
    /\ LET branch == branches[idx]
           excludes == Excludes(ExcludeSource(lastRev, preLastRev))
           out == GitLog(newRev, excludes)
       IN /\ cmds' = Append(cmds, Cmd("log", branch, <<newRev>> \o Ascending(excludes),
                                       IF ok THEN 0 ELSE 1))
          /\ IF ~ok
             THEN /\ errors' = errors + 1
                  /\ logOut' = logOut
                  /\ lastRev' = Put(lastRev, branch, RevAfterLogFailure(lastRev, branch, newRev))
                  /\ revs' = Put(revs, branch, lastRev'[branch])
                  /\ NextBranch
             ELSE /\ errors' = errors
                  /\ revs' = revs
                  /\ logOut' = Put(logOut, branch, out)
                  /\ LET todo == ToSubmit(branch, newRev, out, lastRev, buildPushesWithNoCommits)
                     IN IF todo = << >>
                        THEN /\ lastRev' = Put(lastRev, branch, newRev)
                             /\ NextBranch
                        ELSE /\ revList' = todo
                             /\ pc' = "emit"
                             /\ idx' = idx
                             /\ UNCHANGED lastRev
    /\ UNCHANGED <<remote, config, state, mirror, running, remote_refs,
                   branches, newRev, changesAdded, preLastRev, preState, afterRestart, messages,
                   result, budget, life, disturbed>>
    /\ UNCHANGED creds
    /\ UNCHANGED versionStdout
    /\ UNCHANGED <<extraction, fleet>>

\* A poller that moves the entry of the branch to the new tip although
\* the metadata of one of its commits could not be read.
CursorAfterMetadataFailureAdvance(cur, branch, new) == Put(cur, branch, new)

\* The cursor after a metadata failure: what it was before the branch was
\* processed.
CursorAfterMetadataFailure(cur, branch, new) == cur

\* A poller that writes the cursor to the state store whenever it has
\* moved.
StoreDuringPollEager(st, cur) ==
    IF st # << >> /\ st.lastRev = cur THEN st ELSE [lastRev |-> cur]

\* The state store while the branches are processed: nothing is written
\* before the end of the poll.
StoreDuringPoll(st, cur) == st

\* Metadata extraction and submission of the next commit of branches[idx].
EmitChange(ok) ==
    /\ pc = "emit"
    /\ LET branch == branches[idx]
           rev == Head(revList)
           pair == <<_removeHeads(branch), rev>>
       IN IF ok
          THEN /\ changesAdded' = Append(changesAdded, Change(branch, rev))
               /\ submitted' = IF recording THEN submitted \cup {pair} ELSE submitted
               /\ resubmitted' = (resubmitted \/ pair \in submitted)
               /\ UNCHANGED recording
               /\ IF Tail(revList) = << >>
                  THEN /\ lastRev' = Put(lastRev, branch, newRev)
                       /\ NextBranch
                  ELSE /\ revList' = Tail(revList)
                       /\ UNCHANGED <<lastRev, idx, pc>>
               /\ UNCHANGED <<errors, result, disturbed>>
          ELSE /\ errors' = errors + 1
               /\ result' = "EnvironmentError"
               /\ pc' = "idle"
               /\ disturbed' = recording
               /\ lastRev' = CursorAfterMetadataFailure(lastRev, branch, newRev)
               /\ UNCHANGED <<changesAdded, life, idx, revList>>
    /\ state' = StoreDuringPoll(state, lastRev')
    /\ UNCHANGED <<remote, config, mirror, running, remote_refs,
                   branches, revs, newRev, cmds, logOut, preLastRev, preState, afterRestart,
                   messages, budget>>
    /\ UNCHANGED creds
    /\ UNCHANGED versionStdout
    /\ UNCHANGED <<extraction, fleet>>

\* A poller that persists only the entries that differ from the stored
\* ones.
PersistedDeltas(st, cur) ==
    [lastRev |-> [k \in {x \in DOMAIN cur : ~(/\ "lastRev" \in DOMAIN st
                                               /\ x \in DOMAIN st.lastRev
                                               /\ st.lastRev[x] = cur[x])} |-> cur[k]]]

\* setState('lastRev', self.lastRev): the whole cursor replaces what the
\* store held.
Persisted(st, cur) == [lastRev |-> cur]

\* The end of poll(): the cursor is replaced by the entries of the polled
\* branches and persisted as a whole.
Finish ==
    /\ pc = "revparse"
    /\ idx > Len(branches)
    /\ lastRev' = FinalCursor(lastRev, revs)
    /\ state' = Persisted(state, lastRev')
    /\ result' = "completed"
    /\ pc' = "idle"
    /\ UNCHANGED <<remote, config, mirror, local, hist, budget, life, disturbed>>
    /\ UNCHANGED creds
    /\ UNCHANGED versionStdout
    /\ UNCHANGED <<extraction, fleet>>

\* Between polls the record of the last poll is dropped.
Forget ==
    /\ versionStdout' = << >>
    /\ running' = TRUE
    /\ remote_refs' = << >>
    /\ branches' = << >>
    /\ idx' = 1
    /\ revs' = EmptyMap
    /\ newRev' = 0
    /\ revList' = << >>
    /\ changesAdded' = << >>
    /\ cmds' = << >>
    /\ logOut' = EmptyMap
    /\ errors' = 0
    /\ messages' = << >>
    /\ preLastRev' = EmptyMap
    /\ preState' = << >>
    /\ afterRestart' = FALSE
    /\ mirror' = EmptyMap

\* The remote moves a ref (c = 0: deletes it).
Push(r, c) ==
    /\ pc = "idle"
    /\ budget > 0
    /\ remote[r] # c
    /\ remote' = [remote EXCEPT ![r] = c]
    /\ disturbed' = (disturbed \/ (recording /\ remote[r] # 0 /\ ~IsAncestor(remote[r], c)))
    /\ result' = "none"
    /\ Forget
    /\ UNCHANGED <<config, cursor, pc, budget, life>>
    /\ UNCHANGED creds
    /\ UNCHANGED <<extraction, fleet>>

\* The poller is reconfigured with another branch policy.
Reconfig(policy) ==
    /\ pc = "idle"
    /\ budget > 0
    /\ policy # branchesCfg
    /\ branchesCfg' = policy
    /\ disturbed' = recording
    /\ result' = "none"
    /\ Forget
    /\ UNCHANGED <<remote, buildPushesWithNoCommits, cursor, pc, budget, life>>
    /\ UNCHANGED creds
    /\ UNCHANGED <<extraction, fleet>>

\* stopService followed by startService: the cursor is read from the store.
Restart ==
    /\ pc = "idle"
    /\ budget > 0
    /\ lastRev' = GetLastRev(state)
    /\ result' = IF result = "restarted" \/ (result = "completed" /\ errors = 0)
                 THEN "restarted" ELSE "started"
    /\ Forget
    /\ UNCHANGED <<remote, config, state, pc, budget, life, disturbed>>
    /\ UNCHANGED creds
    /\ UNCHANGED <<extraction, fleet>>

Next ==
    \/ /\ pc = "idle"
       /\ \E stage \in Stages \ {"fetch"}, code \in {1, 128} : PollFail(stage, code, << >>)
    \/ /\ pc = "idle"
       /\ \E order \in Orders(Present(remote)), code \in {1, 128} : PollFail("fetch", code, order)
    \/ /\ pc = "idle"
       /\ \E order \in Orders(Present(remote)) : PollNotRunning(order)
    \/ /\ pc = "idle"
       /\ \E order \in Orders(Present(remote)) : PollBegin(order)
    \/ \E ok \in BOOLEAN : RevParse(ok)
    \/ \E ok \in BOOLEAN : ProcessChanges(ok)
    \/ \E ok \in BOOLEAN : EmitChange(ok)
    \/ Finish
    \/ \E r \in RemoteRefs, c \in 0..MaxCommit : Push(r, c)
    \/ \E policy \in Policies : Reconfig(policy)
    \/ Restart

Spec == Init /\ [][Next]_vars

\* A longer life of a poller of two listed branches whose configuration
\* stays as it is.
InitLife ==
    /\ remote \in [RemoteRefs -> 0..MaxLifeCommit]
    /\ branchesCfg = ListPolicy({<<"master">>, <<"release">>})
    /\ buildPushesWithNoCommits \in BOOLEAN
    /\ budget = MaxLifePolls
    /\ recording = TRUE
    /\ Fresh
    /\ extraction = << >>
    /\ fleet = Apart
    /\ NoCredentials

NextLife ==
    \/ \E order \in Orders(Present(remote)) : PollFail("fetch", 1, order)
    \/ \E order \in Orders(Present(remote)) : PollBegin(order)
    \/ \E ok \in BOOLEAN : RevParse(ok)
    \/ \E ok \in BOOLEAN : ProcessChanges(ok)
    \/ \E ok \in BOOLEAN : EmitChange(ok)
    \/ Finish
    \/ \E r \in RemoteRefs, c \in 0..MaxLifeCommit : Push(r, c)
    \/ Restart

SpecLife == InitLife /\ [][NextLife]_vars

\* The predicates over the remote refs that accept at least one of them.
PredPolicies == {PredPolicy(accept) : accept \in (SUBSET RemoteRefs) \ {{}}}

\* A poller configured with a predicate, whatever the predicate accepts.
InitPred ==
    /\ remote \in [RemoteRefs -> 0..MaxPredCommit]
    /\ branchesCfg \in PredPolicies
    /\ buildPushesWithNoCommits \in BOOLEAN
    /\ budget = MaxPolls
    /\ recording = FALSE
    /\ Fresh
    /\ extraction = << >>
    /\ fleet = Apart
    /\ NoCredentials

NextPred ==
    \/ \E order \in Orders(Present(remote)) : PollFail("fetch", 1, order)
    \/ \E order \in Orders(Present(remote)) : PollBegin(order)
    \/ \E ok \in BOOLEAN : RevParse(ok)
    \/ \E ok \in BOOLEAN : ProcessChanges(ok)
    \/ \E ok \in BOOLEAN : EmitChange(ok)
    \/ Finish
    \/ \E r \in RemoteRefs, c \in 0..MaxPredCommit : Push(r, c)

SpecPred == InitPred /\ [][NextPred]_vars

\* A poller with branches = True against a remote with a head, a tag and a
\* pull ref.
InitAll ==
    /\ remote \in [MixedRefs -> 0..MaxAllCommit]
    /\ branchesCfg = AllPolicy
    /\ buildPushesWithNoCommits = FALSE
    /\ budget = MaxPolls
    /\ recording = FALSE
    /\ Fresh
    /\ extraction = << >>
    /\ fleet = Apart
    /\ NoCredentials

NextAll ==
    \/ \E order \in Orders(Present(remote)) : PollBegin(order)
    \/ \E ok \in BOOLEAN : RevParse(ok)
    \/ ProcessChanges(TRUE)
    \/ EmitChange(TRUE)
    \/ Finish
    \/ \E r \in MixedRefs, c \in 0..MaxAllCommit : Push(r, c)

SpecAll == InitAll /\ [][NextAll]_vars

----------------------------------------------------------------------------
\* Construction, the feature probe and the SSH credentials of the git
\* invocations of a poll.  Texts are sequences of tokens.

PrivateKeys == {<<"ssh-key">>, <<"ssh-key", "\n">>}
HostMaterials == {"none", "sshHostKey", "sshKnownHosts"}
GitVersions == {<<1, 7>>, <<2, 3>>, <<2, 9>>, <<2, 10>>}
Exits == {0, 1, 128}

\* A constructor that accepts every combination of options.
ConstructLenient(o) == "ok"

\* GitPoller.__init__: the combinations of options it rejects.
Construct(o) ==
    IF o.fetch_refspec THEN "ConfigError"
    ELSE IF o.branch /\ o.branches THEN "ConfigError"
    ELSE IF o.only_tags /\ (o.branch \/ o.branches) THEN "ConfigError"
    ELSE "ok"

\* A version comparison that reads the minor number as text ("10" < "3").
VersionAtLeastAsText(v, w) ==
    \/ v[1] > w[1]
    \/ v[1] = w[1] /\ (IF v[2] >= 10 THEN 1 ELSE v[2]) >= (IF w[2] >= 10 THEN 1 ELSE w[2])

VersionAtLeast(v, w) == v[1] > w[1] \/ (v[1] = w[1] /\ v[2] >= w[2])

\* The feature set derived from git --version.
Features(v) ==
    [ssh_via_config |-> VersionAtLeast(v, <<2, 10>>),
     ssh_via_env |-> VersionAtLeast(v, <<2, 3>>)]

SshConfigured(o) == o.sshPrivateKey # NoKey

\* A feature probe that lets every git version through.
FeaturesOkAlways(o, v) == TRUE

\* _checkGitFeatures: a private key needs a git that can carry it.
FeaturesOk(o, v) == SshConfigured(o) => Features(v).ssh_via_env

ScratchDir == <<"basedir", "gitpoller-work", ".buildbot-ssh@@@">>
KeyPath == ScratchDir \o <<"ssh-key">>
KnownHostsPath == ScratchDir \o <<"ssh-known-hosts">>

\* The private key as written: always newline-terminated.
EnsureNewline(k) == IF k[Len(k)] = "\n" THEN k ELSE Append(k, "\n")

\* sshHostKey is wrapped to "* <key>", sshKnownHosts is written verbatim.
KnownHostsText(o) ==
    IF o.host = "sshHostKey" THEN <<"*", " ", "ssh-host-key">> ELSE <<"ssh-known-hosts">>

\* The writeLocalFile calls that fill the scratch directory, in order.
ScratchWrites(o) ==
    <<[op |-> "write", path |-> KeyPath, text |-> EnsureNewline(o.sshPrivateKey), mode |-> "0400"]>>
    \o (IF o.host = "none" THEN << >>
        ELSE <<[op |-> "write", path |-> KnownHostsPath, text |-> KnownHostsText(o),
                mode |-> "default"]>>)

\* ssh -o "BatchMode=yes" -i "<key>" [-o "UserKnownHostsFile=<hosts>"]
SshCommand(o) ==
    <<"ssh", "-o", "BatchMode=yes", "-i", KeyPath>>
    \o (IF o.host = "none" THEN << >> ELSE <<"-o", <<"UserKnownHostsFile", KnownHostsPath>>>>)

\* A poller that takes every git command to contact the remote.
ContactsRemoteAlways(cmd) == TRUE

\* The git commands that contact the remote.
ContactsRemote(cmd) == cmd \in {"ls-remote", "fetch"}

NeedsCredentials(o, cmd) == SshConfigured(o) /\ ContactsRemote(cmd)

\* What a git invocation carries for SSH: -c core.sshCommand=<ssh> before
\* the subcommand, or GIT_SSH_COMMAND=<ssh> in the environment overlay.
Decoration(o, v, cmd) ==
    IF ~NeedsCredentials(o, cmd) THEN [config |-> << >>, env |-> {}]
    ELSE IF Features(v).ssh_via_config
    THEN [config |-> <<"-c", <<"core.sshCommand", SshCommand(o)>>>>, env |-> {}]
    ELSE IF Features(v).ssh_via_env
    THEN [config |-> << >>, env |-> {<<"GIT_SSH_COMMAND", SshCommand(o)>>}]
    ELSE [config |-> << >>, env |-> {}]

\* One git process.
Invocation(o, v, cmd, exit) ==
    [cmd |-> cmd, config |-> Decoration(o, v, cmd).config,
     env |-> Decoration(o, v, cmd).env, exit |-> exit]

\* A scratch directory that is left behind when git fails.
RemovesScratchOnSuccess(exit) == exit = 0

\* The scratch directory is removed when the invocation ends, however it
\* ended.
RemovesScratch(exit) == TRUE

\* Where poll() goes after a git command has ended: a failing init,
\* ls-remote or fetch ends the poll, a failing rev-parse or log does not.
After(cmd, exit, more) ==
    IF cmd \in {"init", "ls-remote", "fetch"} /\ exit # 0
    THEN [at |-> Idle,
          outcome |-> IF Caught(_dovccmd(exit)) THEN "returned" ELSE _dovccmd(exit)]
    ELSE IF cmd = "init" THEN [at |-> [cmd |-> "ls-remote", phase |-> "before"], outcome |-> "polling"]
    ELSE IF cmd = "ls-remote" THEN [at |-> [cmd |-> "fetch", phase |-> "before"], outcome |-> "polling"]
    ELSE IF cmd = "fetch" THEN [at |-> [cmd |-> "rev-parse", phase |-> "before"], outcome |-> "polling"]
    ELSE IF cmd = "rev-parse" /\ exit = 0 /\ more
    THEN [at |-> [cmd |-> "log", phase |-> "before"], outcome |-> "polling"]
    ELSE [at |-> Idle, outcome |-> "completed"]

\* GitPoller(...) is called.
ConstructPoller ==
    /\ built = "none"
    /\ built' = Construct(options)
    /\ UNCHANGED <<pollvars, options, gitVersion, at, scratch, fsLog, invocations, outcome,
                   sshBudget, versionStdout>>
    /\ UNCHANGED <<extraction, fleet>>

\* poll() is entered: git --version runs and _checkGitFeatures decides.
PollEnter ==
    /\ built = "ok"
    /\ at = Idle
    /\ sshBudget > 0
    /\ sshBudget' = sshBudget - 1
    /\ invocations' = <<Invocation(options, gitVersion, "--version", 0)>>
    /\ versionStdout' = VersionText(gitVersion)
    /\ fsLog' = << >>
    /\ IF FeaturesOk(options, parseGitFeatures(versionStdout'))
       THEN at' = [cmd |-> "init", phase |-> "before"] /\ outcome' = "polling"
       ELSE at' = Idle /\ outcome' = "EnvironmentError"
    /\ UNCHANGED <<pollvars, options, built, gitVersion, scratch>>
    /\ UNCHANGED <<extraction, fleet>>

\* The scratch directory is created and filled for the invocation to come.
Materialize ==
    /\ at.cmd # "idle"
    /\ at.phase = "before"
    /\ NeedsCredentials(options, at.cmd)
    /\ scratch' = [path |-> ScratchDir, mode |-> "0700",
                   files |-> {ScratchWrites(options)[j] : j \in 1..Len(ScratchWrites(options))}]
    /\ fsLog' = fsLog \o <<[op |-> "mkdir", path |-> ScratchDir, mode |-> "0700"]>>
                      \o ScratchWrites(options)
    /\ at' = [at EXCEPT !.phase = "ready"]
    /\ UNCHANGED <<pollvars, options, built, gitVersion, invocations, outcome, sshBudget,
                   versionStdout>>
    /\ UNCHANGED <<extraction, fleet>>

\* The git process of the current command runs and exits.
RunGit(exit, more) ==
    /\ at.cmd # "idle"
    /\ at.phase = IF NeedsCredentials(options, at.cmd) THEN "ready" ELSE "before"
    /\ invocations' = Append(invocations, Invocation(options, gitVersion, at.cmd, exit))
    /\ IF NeedsCredentials(options, at.cmd)
       THEN at' = [at EXCEPT !.phase = "ran"] /\ UNCHANGED outcome
       ELSE at' = After(at.cmd, exit, more).at /\ outcome' = After(at.cmd, exit, more).outcome
    /\ UNCHANGED <<pollvars, options, built, gitVersion, scratch, fsLog, sshBudget,
                   versionStdout>>
    /\ UNCHANGED <<extraction, fleet>>

\* The invocation that used the scratch directory has ended.
Cleanup ==
    /\ at.phase = "ran"
    /\ LET exit == invocations[Len(invocations)].exit
       IN /\ IF RemovesScratch(exit)
             THEN /\ scratch' = << >>
                  /\ fsLog' = Append(fsLog, [op |-> "rmtree", path |-> ScratchDir])
             ELSE UNCHANGED <<scratch, fsLog>>
          /\ at' = After(at.cmd, exit, FALSE).at
          /\ outcome' = After(at.cmd, exit, FALSE).outcome
    /\ UNCHANGED <<pollvars, options, built, gitVersion, invocations, sshBudget,
                   versionStdout>>
    /\ UNCHANGED <<extraction, fleet>>

\* Every construction the options allow for, every git version, the poll
\* state at rest.
InitSsh ==
    /\ options \in [branch : BOOLEAN, branches : BOOLEAN, only_tags : BOOLEAN,
                    fetch_refspec : BOOLEAN, sshPrivateKey : PrivateKeys \cup {NoKey},
                    host : HostMaterials]
    /\ options.host # "none" => SshConfigured(options)
    /\ built = "none"
    /\ gitVersion \in GitVersions
    /\ at = Idle
    /\ scratch = << >>
    /\ fsLog = << >>
    /\ invocations = << >>
    /\ outcome = "none"
    /\ sshBudget = MaxSshPolls
    /\ remote = [r \in RemoteRefs |-> 0]
    /\ branchesCfg = ListPolicy({<<"master">>})
    /\ buildPushesWithNoCommits = FALSE
    /\ budget = 0
    /\ recording = FALSE
    /\ Fresh
    /\ extraction = << >>
    /\ fleet = Apart

NextSsh ==
    \/ ConstructPoller
    \/ PollEnter
    \/ Materialize
    \/ \E exit \in Exits, more \in BOOLEAN : RunGit(exit, more)
    \/ Cleanup

SpecSsh == InitSsh /\ [][NextSsh]_vars

----------------------------------------------------------------------------
\* The metadata extractors of a commit.  The output of git is a sequence
\* of lines.

Author == "Sammy Jankis <email@example.com>"

\* What git may print for each extractor; << >> is no output at all.
OutputsOf(method) ==
    CASE method \in {"author", "committer"} -> {<< >>, <<Author>>}
      [] method = "timestamp" -> {<< >>, <<"1273258009">>}
      [] method = "comments" ->
             {<< >>, <<"single line message">>,
              <<"this is a commit message", "", "that is multiline">>}
      [] method = "files" ->
             {<< >>, <<"", "", "file1", "file2", "\"\\146ile_octal\"", "file space">>,
              <<"normal_directory/file1", "directory with space/file2">>}

\* float(<stdout>) of the %ct line.
ParseTimestamp(line) == CASE line = "1273258009" -> 1273258009

\* Git quotes a path with unusual bytes and writes them as octal escapes.
DecodeQuoted(line) == IF line = "\"\\146ile_octal\"" THEN "file_octal" ELSE line

\* The lines that name a file, decoded.
RECURSIVE FileNames(_)
FileNames(lines) ==
    IF lines = << >> THEN << >>
    ELSE IF Head(lines) = "" THEN FileNames(Tail(lines))
    ELSE <<DecodeQuoted(Head(lines))>> \o FileNames(Tail(lines))

\* Extractors that all refuse an empty output.
RequiresOutputAlways(method) == TRUE

\* The extractors that do not accept an empty output.
RequiresOutput(method) == method \in {"author", "committer", "timestamp"}

Returned(v) == [raised |-> "none", value |-> v]
Raised(exc) == [raised |-> exc, value |-> << >>]

\* What an extractor makes of the output of its git command.
Extracted(method, out) ==
    CASE method \in {"author", "committer"} -> Returned([text |-> out])
      [] method = "timestamp" -> Returned([number |-> ParseTimestamp(out[1])])
      [] method = "comments" -> Returned([text |-> out])
      [] method = "files" -> Returned([list |-> FileNames(out)])

\* One call of an extractor: _dovccmd raises when git exits non-zero, the
\* extractor raises when it needs output and there is none.
Extract(method, exit, out) ==
    IF exit # 0 THEN Raised(_dovccmd(exit))
    ELSE IF out = << >> /\ RequiresOutput(method) THEN Raised("EnvironmentError")
    ELSE Extracted(method, out)

Call(method, exit, out) ==
    /\ Len(extraction) < MaxCalls
    /\ extraction' = Append(extraction, [method |-> method, exit |-> exit, stdout |-> out,
                                         result |-> Extract(method, exit, out)])
    /\ UNCHANGED <<pollvars, creds, versionStdout, fleet>>

_get_commit_author(exit, out) == Call("author", exit, out)

_get_commit_committer(exit, out) == Call("committer", exit, out)

_get_commit_timestamp(exit, out) == Call("timestamp", exit, out)

_get_commit_comments(exit, out) == Call("comments", exit, out)

_get_commit_files(exit, out) == Call("files", exit, out)

\* A poller at rest whose extractors are called.
InitMeta ==
    /\ remote = [r \in RemoteRefs |-> 0]
    /\ branchesCfg = ListPolicy({<<"master">>})
    /\ buildPushesWithNoCommits = FALSE
    /\ budget = 0
    /\ recording = FALSE
    /\ Fresh
    /\ NoCredentials
    /\ extraction = << >>
    /\ fleet = Apart

NextMeta ==
    \/ \E exit \in Exits, out \in OutputsOf("author") : _get_commit_author(exit, out)
    \/ \E exit \in Exits, out \in OutputsOf("committer") : _get_commit_committer(exit, out)
    \/ \E exit \in Exits, out \in OutputsOf("timestamp") : _get_commit_timestamp(exit, out)
    \/ \E exit \in Exits, out \in OutputsOf("comments") : _get_commit_comments(exit, out)
    \/ \E exit \in Exits, out \in OutputsOf("files") : _get_commit_files(exit, out)

SpecMeta == InitMeta /\ [][NextMeta]_vars

----------------------------------------------------------------------------
\* Vocabulary of the properties.  The record of the last poll (cmds,
\* changesAdded, logOut, preLastRev) is read while that poll runs and until
\* the environment moves.

TypeOK == pc \in {"idle", "revparse", "log", "emit"}

\* The last poll ran to its end.
Completed == pc = "idle" /\ result = "completed"

\* The last poll got past its fetch.
InPoll == result \in {"polling", "completed"}

\* The branch keys polled, those whose rev-parse succeeded, those whose
\* git log ran, and those whose git log failed.
Polled == SeqRange(branches)
Parsed == {cmds[j].branch : j \in {i \in 1..Len(cmds) : cmds[i].cmd = "rev-parse" /\ cmds[i].exit = 0}}
Logged == {cmds[j].branch : j \in {i \in 1..Len(cmds) : cmds[i].cmd = "log"}}
LogFailed == {cmds[j].branch : j \in {i \in 1..Len(cmds) : cmds[i].cmd = "log" /\ cmds[i].exit # 0}}

\* What rev-parse prints for a polled branch: the tip the remote has.
Tip(b) == remote[RemoteRefOf(b)]

Restrict(f, S) == [k \in DOMAIN f \cap S |-> f[k]]

\* The revisions submitted for a branch by the last poll, in order.
RECURSIVE RevisionsOf(_, _)
RevisionsOf(chs, name) ==
    IF chs = << >> THEN << >>
    ELSE IF Head(chs).branch = name
         THEN <<Head(chs).revision>> \o RevisionsOf(Tail(chs), name)
         ELSE RevisionsOf(Tail(chs), name)

----------------------------------------------------------------------------
\* C1 as stated: a poll that starts with an empty cursor submits no change,
\* runs no git log, and ends with the cursor holding the rev-parse tip of
\* every polled branch, the same map being persisted under 'lastRev'.
C1_Original ==
    (InPoll /\ preLastRev = EmptyMap) =>
        /\ changesAdded = << >>
        /\ Logged = {}
        /\ Completed => /\ lastRev = [b \in Polled |-> Tip(b)]
                        /\ state = [lastRev |-> lastRev]

\* C1: a poll that starts with an empty cursor submits no change, runs no
\* git log, and ends with the cursor holding the rev-parse tip of every
\* polled branch whose rev-parse succeeded (a branch whose rev-parse failed
\* gets no entry), the same map being persisted under 'lastRev'.
C1_InitialPoll ==
    (InPoll /\ preLastRev = EmptyMap) =>
        /\ changesAdded = << >>
        /\ Logged = {}
        /\ Completed => /\ lastRev = [b \in Parsed |-> Tip(b)]
                        /\ state = [lastRev |-> lastRev]

\* An initial poll of two branches, one of them with a failing rev-parse,
\* has run to its end against a remote with history.
C1_Witness ==
    /\ Completed
    /\ preLastRev = EmptyMap
    /\ Cardinality(Polled) = 2
    /\ Cardinality(Parsed) = 1
    /\ \E b \in Parsed : Tip(b) > 1

\* C2: after a poll that ran to its end, the cursor entry of every polled
\* branch whose rev-parse succeeded is that rev-parse output, whether or not
\* git log returned commits for it.
C2_CursorIsTip ==
    Completed => \A b \in Parsed : b \in DOMAIN lastRev /\ lastRev[b] = Tip(b)

\* A poll moved one entry after an empty git log and another one after a
\* git log that returned commits.
C2_Witness ==
    /\ Completed
    /\ \E b, c \in Parsed \cap DOMAIN logOut \cap DOMAIN preLastRev :
          /\ logOut[b] = << >> /\ preLastRev[b] # lastRev[b]
          /\ logOut[c] # << >> /\ preLastRev[c] # lastRev[c]

SubmittedShas == {p[2] : p \in submitted}

\* The poller is between polls and the record of the last poll is at hand.
Between == pc = "idle" /\ result \notin {"none", "started", "restarted"}

\* C5 as stated: between polls each sha stored in the cursor has been
\* submitted downstream or is the value recorded at the first sighting of
\* its branch.  (An entry the last poll left as it was is covered by the
\* polls before; an entry it made for a key the cursor did not have is a
\* first sighting.)
C5_Original ==
    Between =>
        \A k \in DOMAIN lastRev :
            \/ lastRev[k] \in SubmittedShas
            \/ k \notin DOMAIN preLastRev
            \/ preLastRev[k] = lastRev[k]

\* C5: between polls each sha stored in the cursor has been submitted
\* downstream, or is the value recorded at the first sighting of its branch,
\* or was adopted by a poll whose git log for the branch failed or returned
\* no commits.
C5_CursorOrigin ==
    Between =>
        \A k \in DOMAIN lastRev :
            \/ lastRev[k] \in SubmittedShas
            \/ k \notin DOMAIN preLastRev
            \/ preLastRev[k] = lastRev[k]
            \/ k \in LogFailed
            \/ (k \in DOMAIN logOut /\ logOut[k] = << >>)

\* A poll moved one entry to a sha it submitted and another one, after a
\* failed git log, to a sha never submitted.
C5_Witness ==
    /\ Completed
    /\ \E k \in LogFailed \cap DOMAIN preLastRev :
          preLastRev[k] # lastRev[k] /\ lastRev[k] \notin SubmittedShas
    /\ \E k \in DOMAIN logOut \cap DOMAIN preLastRev :
          preLastRev[k] # lastRev[k] /\ logOut[k] # << >>

\* Some branch is polled, and every polled branch has an entry, its
\* rev-parse printed the sha of that entry and its git log succeeded.
Quiet ==
    /\ Polled # {}
    /\ \A b \in Polled :
           /\ b \in Parsed
           /\ b \notin LogFailed
           /\ b \in DOMAIN preLastRev
           /\ preLastRev[b] = Tip(b)

C7_Restart ==
    /\ (pc = "idle" /\ result = "restarted") =>
           state # << >> /\ lastRev = state.lastRev
    /\ (afterRestart /\ InPoll) => changesAdded = << >>

\* The poll after such a restart ran git log for two branches and ended.
C7_Witness ==
    /\ Completed
    /\ afterRestart
    /\ Cardinality(Logged) = 2
    /\ \E b \in Polled : Tip(b) > 1

\* The git logs of the last poll have all been worked off.
LogsDone == InPoll /\ pc \in {"revparse", "idle"}

\* C8 as stated: the changes of a branch are submitted in the order of the
\* git log output, first line first.
C8_Original ==
    LogsDone =>
        \A b \in DOMAIN logOut :
            logOut[b] # << >> =>
                RevisionsOf(changesAdded, _removeHeads(b)) = logOut[b]

\* C8: the changes of a branch are submitted in the reverse of the order of
\* the git log output: last line (the oldest commit) first, first line (the
\* newest) last.
C8_OldestFirst ==
    LogsDone =>
        \A b \in DOMAIN logOut :
            logOut[b] # << >> =>
                RevisionsOf(changesAdded, _removeHeads(b)) = Reverse(logOut[b])

\* A git log of two commits or more has been submitted.
C8_Witness ==
    /\ Completed
    /\ \E b \in DOMAIN logOut : Len(logOut[b]) >= 2

PosIn(s, x) == CHOOSE j \in 1..Len(s) : s[j] = x

\* The elements of s come in the order they have in ref.
InOrderOf(s, ref) ==
    \A i, j \in 1..Len(s) : i < j => PosIn(ref, s[i]) < PosIn(ref, s[j])

\* The branches the commands of the given name were run for, in order.
RECURSIVE BranchesOf(_, _)
BranchesOf(cs, name) ==
    IF cs = << >> THEN << >>
    ELSE IF Head(cs).cmd = name
         THEN <<Head(cs).branch>> \o BranchesOf(Tail(cs), name)
         ELSE BranchesOf(Tail(cs), name)

\* The place among the polled branches of the branch a change is for.
PlaceOf(ch) == CHOOSE j \in 1..Len(branches) : _removeHeads(branches[j]) = ch.branch

\* C9: the branches are processed one after another in the order of the
\* selector (sorted by name for an explicit list, ls-remote order for True
\* and for a predicate), and the changes of an earlier branch are all
\* submitted before any change of a later one.
C9_BranchOrder ==
    InPoll =>
        /\ IF branchesCfg.kind = "list"
           THEN InOrderOf(branches, NameOrder)
           ELSE InOrderOf(branches, remote_refs)
        /\ LET parsed == BranchesOf(cmds, "rev-parse")
           IN Len(parsed) <= Len(branches) /\ parsed = SubSeq(branches, 1, Len(parsed))
        /\ \A i, j \in 1..Len(changesAdded) :
               i < j => PlaceOf(changesAdded[i]) <= PlaceOf(changesAdded[j])

\* Two branches have had changes submitted in one poll.
C9_Witness ==
    /\ Completed
    /\ \E i, j \in 1..Len(changesAdded) : changesAdded[i].branch # changesAdded[j].branch

\* The number of changes submitted for a branch name and a sha.
Count(chs, name, sha) ==
    Cardinality({j \in 1..Len(chs) : chs[j].branch = name /\ chs[j].revision = sha})

\* The one change built for a push without commits.
Synthesized(b, sha) ==
    /\ buildPushesWithNoCommits
    /\ b \in DOMAIN logOut
    /\ logOut[b] = << >>
    /\ sha = Tip(b)
    /\ (b \in DOMAIN preLastRev => preLastRev[b] # sha)

\* C10: in a poll without metadata failure the downstream ingest is called
\* exactly once for each sha of each branch's git log output and for
\* nothing else (but the one change built for a push without commits), and
\* each record has the sha as revision, the short name of the branch as
\* branch (also when the branch key is a full ref), the repourl as
\* repository and 'git' as src.
C10_OncePerSha ==
    Completed =>
        /\ \A j \in 1..Len(changesAdded) :
               /\ changesAdded[j].repository = REPOURL
               /\ changesAdded[j].src = "git"
               /\ changesAdded[j].revision \in Commits
               /\ changesAdded[j].branch \in SeqRange(NameOrder)
               /\ \E b \in Polled : changesAdded[j].branch = _removeHeads(b)
        /\ \A b \in Polled, sha \in Commits :
               Count(changesAdded, _removeHeads(b), sha) =
                   IF (b \in DOMAIN logOut /\ sha \in SeqRange(logOut[b])) \/ Synthesized(b, sha)
                   THEN 1 ELSE 0

\* A poll whose branch keys are full refs has submitted a git log of two
\* commits or more.
C10_Witness ==
    /\ Completed
    /\ branchesCfg.kind = "all"
    /\ \E b \in DOMAIN logOut : Len(logOut[b]) >= 2

----------------------------------------------------------------------------
\* The number of commands of the given name that exited non-zero.
Failures(name) ==
    Cardinality({j \in 1..Len(cmds) : cmds[j].cmd = name /\ cmds[j].exit # 0})

\* The last command the last poll ran.
LastCmd == cmds[Len(cmds)]

\* C11: when git log exits non-zero for a polled branch the poll does not
\* abort (it goes on to the next branch and runs to its end), one error is
\* logged for that failure, no change is submitted for that branch, and the
\* entry of that branch is advanced to the new rev-parse tip.
C11_LogFailure ==
    /\ (InPoll /\ pc \in {"revparse", "idle"}) =>
           /\ errors = Failures("rev-parse") + Failures("log")
           /\ \A b \in LogFailed : RevisionsOf(changesAdded, _removeHeads(b)) = << >>
    /\ (pc = "idle" /\ cmds # << >> /\ LastCmd.cmd = "log" /\ LastCmd.exit # 0) =>
           result = "completed"
    /\ Completed => \A b \in LogFailed : b \in DOMAIN lastRev /\ lastRev[b] = Tip(b)

\* A poll ran to its end after the git log of its first branch failed on a
\* tip that had moved; its second branch had changes submitted.
C11_Witness ==
    /\ Completed
    /\ errors = 1
    /\ Len(branches) = 2
    /\ branches[1] \in LogFailed \cap DOMAIN preLastRev
    /\ preLastRev[branches[1]] # lastRev[branches[1]]
    /\ changesAdded # << >>

\* The branch keys whose rev-parse failed in the last poll.
ParseFailed == {cmds[j].branch : j \in {i \in 1..Len(cmds) : cmds[i].cmd = "rev-parse" /\ cmds[i].exit # 0}}

\* C12: when git rev-parse exits non-zero for a polled branch b the poll
\* does not abort and the other branches are still processed, an error is
\* logged, no git log is run for b, and after the poll the entry of b is
\* what it was before the poll: its old sha if it had one, none if it had
\* none.
C12_RevParseFailure ==
    /\ InPoll => /\ ParseFailed \cap Logged = {}
                 /\ errors >= Failures("rev-parse")
    /\ (pc = "idle" /\ cmds # << >> /\ LastCmd.cmd = "rev-parse" /\ LastCmd.exit # 0) =>
           result = "completed"
    /\ Completed =>
           /\ BranchesOf(cmds, "rev-parse") = branches
           /\ \A b \in ParseFailed :
                  IF b \in DOMAIN preLastRev
                  THEN b \in DOMAIN lastRev /\ lastRev[b] = preLastRev[b]
                  ELSE b \notin DOMAIN lastRev

\* A poll ran to its end after the rev-parse of its first branch failed, a
\* branch that had an entry and whose tip had moved; the second branch had
\* changes submitted.
C12_Witness ==
    /\ Completed
    /\ Len(branches) = 2
    /\ branches[1] \in ParseFailed \cap DOMAIN preLastRev
    /\ preLastRev[branches[1]] # Tip(branches[1])
    /\ branches[2] \in Parsed
    /\ changesAdded # << >>

\* The j-th command of the current poll is a git init, ls-remote or fetch
\* that exited non-zero with a status other than 128.
HardFailed(j) ==
    /\ cmds[j].cmd \in {"init", "ls-remote", "fetch"}
    /\ cmds[j].exit \notin {0, 128}

\* C13: when git init, git ls-remote or git fetch exits non-zero with a
\* status other than 128, poll() fails with EnvironmentError, the failing
\* command is the last git command of the poll, no change is emitted, and
\* the cursor is neither changed in memory nor written to the state store.
C13_HardFailure ==
    \A j \in 1..Len(cmds) :
        HardFailed(j) =>
            /\ j = Len(cmds)
            /\ pc = "idle"
            /\ result = "EnvironmentError"
            /\ changesAdded = << >>
            /\ lastRev = preLastRev
            /\ state = preState

\* A fetch fails with status 1 in a poll that had a cursor, a persisted
\* state and a branch whose tip had moved.
C13_Witness ==
    /\ cmds # << >>
    /\ HardFailed(Len(cmds))
    /\ LastCmd.cmd = "fetch"
    /\ LastCmd.args # << >>
    /\ state # << >>
    /\ \E b \in DOMAIN lastRev : Tip(b) \notin {0, lastRev[b]}

\* The j-th command of the current poll is a git init that exited 128.
InitFatal(j) == cmds[j].cmd = "init" /\ cmds[j].exit = 128

\* C14: a git command that exits 128 makes _dovccmd raise GitError; when
\* that command is the git init of a poll, poll() catches the error, logs
\* "command init on repourl <url> failed with exit code 128", returns
\* without raising, runs no further git command and leaves the cursor as it
\* was.
C14_GitError ==
    /\ _dovccmd(128) = "GitError"
    /\ \A j \in 1..Len(cmds) :
           InitFatal(j) =>
               /\ j = Len(cmds)
               /\ pc = "idle"
               /\ result = "returned"
               /\ messages = <<[command |-> "init", repourl |-> REPOURL, code |-> 128]>>
               /\ changesAdded = << >>
               /\ lastRev = preLastRev

\* git init exits 128 in a poll that had a cursor and a branch whose tip
\* had moved.
C14_Witness ==
    /\ cmds # << >>
    /\ InitFatal(Len(cmds))
    /\ result = "returned"
    /\ Len(messages) = 1
    /\ \E b \in DOMAIN lastRev : Tip(b) \notin {0, lastRev[b]}

\* The names of the git commands of the current poll, in the order they ran.
CmdNames == [j \in 1..Len(cmds) |-> cmds[j].cmd]

\* C15: a poll entered while doPoll.running is false runs git --version,
\* git init --bare and git ls-remote, all of them to success, and returns:
\* no fetch, no rev-parse, no log, no change emitted, the cursor neither
\* changed in memory nor written to the state store.
C15_NotRunning ==
    ~running =>
        /\ pc = "idle"
        /\ result = "stopped"
        /\ CmdNames = <<"--version", "init", "ls-remote">>
        /\ \A j \in 1..Len(cmds) : cmds[j].exit = 0
        /\ changesAdded = << >>
        /\ lastRev = preLastRev
        /\ state = preState

\* A poll without doPoll.running met a remote with refs, a cursor, a
\* persisted state and a branch whose tip had moved.
C15_Witness ==
    /\ ~running
    /\ remote_refs # << >>
    /\ state # << >>
    /\ \E b \in DOMAIN lastRev : Tip(b) \notin {0, lastRev[b]}

\* The polled branches whose git log of the current poll succeeded and
\* printed nothing.
EmptyLogged == {b \in DOMAIN logOut : logOut[b] = << >>}

\* The new tip of the branch is not what the cursor held for it when the
\* poll started (or the cursor held nothing for it).
Moved(b) == b \notin DOMAIN preLastRev \/ preLastRev[b] # Tip(b)

\* C16: with buildPushesWithNoCommits false, a polled branch whose git log
\* is empty while its new tip differs from its cursor entry (or it has no
\* entry) gets no change, and once the poll has ended its cursor entry is
\* the new tip.
C16_NoCommitsNoBuild ==
    (InPoll /\ ~buildPushesWithNoCommits) =>
        \A b \in EmptyLogged :
            Moved(b) =>
                /\ RevisionsOf(changesAdded, _removeHeads(b)) = << >>
                /\ Completed => (b \in DOMAIN lastRev /\ lastRev[b] = Tip(b))

\* Without the flag, a poll has ended in which one branch was moved back
\* to a commit its old entry already covered, and another had no entry but
\* a tip the cursor already covered.
C16_Witness ==
    /\ Completed
    /\ ~buildPushesWithNoCommits
    /\ \E b \in EmptyLogged :
           /\ b \in DOMAIN preLastRev
           /\ preLastRev[b] # Tip(b)
           /\ lastRev[b] = Tip(b)
    /\ \E b \in EmptyLogged : b \notin DOMAIN preLastRev

\* C17: with buildPushesWithNoCommits true, a polled branch whose git log
\* is empty gets exactly one change, with the new tip as revision and the
\* branch as branch, if and only if the new tip differs from the branch's
\* own cursor entry; a missing entry counts as different, also when the
\* entry of another branch equals the new tip.  When the new tip equals the
\* branch's own entry nothing is emitted for it.
C17_NoCommitsBuild ==
    (Completed /\ buildPushesWithNoCommits) =>
        \A b \in EmptyLogged :
            RevisionsOf(changesAdded, _removeHeads(b)) =
                IF Moved(b) THEN <<Tip(b)>> ELSE << >>

\* With the flag, a poll has ended in which one branch had no entry while
\* the entry of another branch was its tip and got its one change, and
\* another branch stood at its own entry.
C17_Witness ==
    /\ Completed
    /\ buildPushesWithNoCommits
    /\ \E b \in EmptyLogged :
           /\ b \notin DOMAIN preLastRev
           /\ \E o \in DOMAIN preLastRev : preLastRev[o] = Tip(b)
           /\ RevisionsOf(changesAdded, _removeHeads(b)) = <<Tip(b)>>
    /\ \E b \in EmptyLogged : ~Moved(b)

\* Every key is a full ref name / every key is a short branch name.
FullRefKeys(m) == DOMAIN m \subseteq RemoteRefs
ShortNameKeys(m) == DOMAIN m \subseteq SeqRange(NameOrder)

\* The key shape the policy in force asks for.
PolicyKeys(m) ==
    IF branchesCfg.kind \in {"all", "pred"} THEN FullRefKeys(m) ELSE ShortNameKeys(m)

\* C18: the keys of the cursor a poll builds, installs and persists have
\* the shape the policy in force at that poll asks for: full ref names
\* under True or a predicate, short names under an explicit list; the state
\* store never holds a mix of both.
C18_KeyShape ==
    /\ InPoll => PolicyKeys(revs)
    /\ Completed => (PolicyKeys(lastRev) /\ state = [lastRev |-> lastRev])
    /\ state # << >> => (FullRefKeys(state.lastRev) \/ ShortNameKeys(state.lastRev))

\* A poll under True has ended and written full ref keys over a cursor
\* that a poll under an explicit list had keyed by short names.
C18_Witness ==
    /\ Completed
    /\ branchesCfg.kind = "all"
    /\ DOMAIN preLastRev # {}
    /\ ShortNameKeys(preLastRev)
    /\ preState = [lastRev |-> preLastRev]
    /\ Cardinality(DOMAIN lastRev) = 2

\* The branches named by the git fetch of the current poll, the branches
\* it ran git rev-parse for, and whether a git fetch was run at all.
FetchRan == \E j \in 1..Len(cmds) : cmds[j].cmd = "fetch"
FetchedNames == UNION {SeqRange(cmds[j].args) : j \in {i \in 1..Len(cmds) : cmds[i].cmd = "fetch"}}
RevParsedNames == {cmds[j].branch : j \in {i \in 1..Len(cmds) : cmds[i].cmd = "rev-parse"}}

\* The branches the current poll touched: fetched, rev-parsed, or keyed in
\* the cursor the poll installed.
Touched == FetchedNames \cup RevParsedNames \cup (IF Completed THEN DOMAIN lastRev ELSE {})

\* The ls-remote output of the current poll lists the remote ref of b.
OnRemote(b) == RemoteRefOf(b) \in SeqRange(remote_refs)

\* C19 as stated: under an explicit list, a listed name is fetched,
\* rev-parsed and given a cursor entry only if refs/heads/<name> is in the
\* ls-remote output of that poll, in every case, including when ls-remote
\* lists no ref at all.
C19_Original ==
    branchesCfg.kind = "list" => \A b \in Touched : OnRemote(b)

\* C19, amended: under an explicit list, when the ls-remote output of the
\* poll lists at least one ref, the names fetched are exactly the listed
\* names whose refs/heads/<name> is in that output, only they are
\* rev-parsed and given a cursor entry, and a poll whose commands all
\* succeed logs no error for the names it skipped.  When ls-remote lists no
\* ref at all the list is not filtered: every listed name is fetched.
C19_ListSkip ==
    branchesCfg.kind = "list" =>
        /\ remote_refs # << >> =>
               /\ \A b \in Touched : b \in branchesCfg.names /\ OnRemote(b)
               /\ FetchRan => FetchedNames = {b \in branchesCfg.names : OnRemote(b)}
               /\ (Completed /\ \A j \in 1..Len(cmds) : cmds[j].exit = 0) =>
                      (errors = 0 /\ messages = << >>)
        /\ (remote_refs = << >> /\ FetchRan) => FetchedNames = branchesCfg.names

\* A poll under an explicit list of two names has ended without any
\* failure against a remote that had only one of them: the other name was
\* not fetched, not rev-parsed and lost the cursor entry it had.
C19_Witness ==
    /\ Completed
    /\ branchesCfg.kind = "list"
    /\ errors = 0
    /\ Len(remote_refs) = 1
    /\ Cardinality(branchesCfg.names) = 2
    /\ FetchedNames = {_removeHeads(remote_refs[1])}
    /\ RevParsedNames = FetchedNames
    /\ DOMAIN lastRev = FetchedNames
    /\ Cardinality(DOMAIN preLastRev) = 2

\* The refspec sources of the git fetch of the current poll, in order.
FetchArgs == cmds[CHOOSE j \in 1..Len(cmds) : cmds[j].cmd = "fetch"].args

\* s is the beginning of t.
IsPrefix(s, t) == Len(s) <= Len(t) /\ s = SubSeq(t, 1, Len(s))

----------------------------------------------------------------------------
\* Properties of the SSH credentials of the git invocations.

\* The ssh command a private key asks for, with the known-hosts option when
\* host key material is configured.
ExpectedSsh ==
    IF options.host = "none"
    THEN <<"ssh", "-o", "BatchMode=yes", "-i", ScratchDir \o <<"ssh-key">>>>
    ELSE <<"ssh", "-o", "BatchMode=yes", "-i", ScratchDir \o <<"ssh-key">>,
           "-o", <<"UserKnownHostsFile", ScratchDir \o <<"ssh-known-hosts">>>>>>

\* The git commands of the current poll, by name.
Ran(name) == \E j \in 1..Len(invocations) : invocations[j].cmd = name

\* C22: with sshPrivateKey set and git 2.10 or newer, every ls-remote and
\* fetch of a poll carries -c core.sshCommand=<ssh command> before the
\* subcommand, with the known-hosts option exactly when host key material
\* is configured, and git --version, init, rev-parse and log carry no SSH
\* decoration at all.
C22_SshViaConfig ==
    (options.sshPrivateKey # NoKey /\ gitVersion[1] >= 2 /\ (gitVersion[1] > 2 \/ gitVersion[2] >= 10)) =>
        \A j \in 1..Len(invocations) :
            IF invocations[j].cmd \in {"ls-remote", "fetch"}
            THEN invocations[j].config = <<"-c", <<"core.sshCommand", ExpectedSsh>>>>
            ELSE invocations[j].config = << >> /\ invocations[j].env = {}

\* A poll on git 2.10 with a private key and a host key has run ls-remote,
\* fetch, rev-parse and log and has ended.
C22_Witness ==
    /\ options.sshPrivateKey # NoKey
    /\ options.host = "sshHostKey"
    /\ gitVersion = <<2, 10>>
    /\ outcome = "completed"
    /\ Ran("ls-remote") /\ Ran("fetch") /\ Ran("rev-parse") /\ Ran("log")

\* How often the current poll created, and removed, the scratch directory,
\* and how many of its git invocations contacted the remote.
Made == Cardinality({j \in 1..Len(fsLog) : fsLog[j].op = "mkdir"})
Removed == Cardinality({j \in 1..Len(fsLog) : fsLog[j].op = "rmtree"})
RemoteRuns == Cardinality({j \in 1..Len(invocations) : invocations[j].cmd \in {"ls-remote", "fetch"}})

\* C23: the scratch directory exists only around one git invocation that
\* needs the private key: it is made for it with mode 0700 and holds the
\* key file with mode 0400 and a newline at its end, and it is removed when
\* that invocation has ended, whatever its exit status.  It exists neither
\* between invocations nor once poll() has returned or raised, every
\* invocation that needed it made and removed its own, and a poll that ran
\* ls-remote and fetch made and removed it exactly twice.
C23_ScratchPerInvocation ==
    /\ scratch # << >> =>
           /\ at.cmd \in {"ls-remote", "fetch"}
           /\ at.phase \in {"ready", "ran"}
           /\ options.sshPrivateKey # NoKey
           /\ scratch.mode = "0700"
           /\ \E f \in scratch.files :
                  /\ f.path = ScratchDir \o <<"ssh-key">>
                  /\ f.mode = "0400"
                  /\ f.text[Len(f.text)] = "\n"
    /\ at.phase = "before" =>
           /\ scratch = << >>
           /\ Made = Removed
           /\ Made = IF options.sshPrivateKey # NoKey THEN RemoteRuns ELSE 0
    /\ at.phase = "ready" => (scratch # << >> /\ Made = Removed + 1 /\ Made = RemoteRuns + 1)
    /\ at.phase = "ran" => (scratch # << >> /\ Made = Removed + 1 /\ Made = RemoteRuns)
    /\ (at = Idle /\ options.sshPrivateKey # NoKey /\ Ran("ls-remote") /\ Ran("fetch")) =>
           (Made = 2 /\ Removed = 2)

\* A poll with a private key whose key text had no newline has failed at
\* the fetch with exit status 1, after a successful ls-remote.
C23_Witness ==
    /\ options.sshPrivateKey = <<"ssh-key">>
    /\ at = Idle
    /\ outcome = "EnvironmentError"
    /\ Ran("fetch")
    /\ invocations[Len(invocations)].exit = 1
    /\ Made = 2
    /\ Removed = 2

\* C24: with sshPrivateKey set and a git from 2.3 up to but not including
\* 2.10, ls-remote and fetch get the ssh command in GIT_SSH_COMMAND of the
\* environment overlay and no -c core.sshCommand, the other commands get
\* neither; and no invocation of any poll carries both.
C24_SshViaEnv ==
    /\ (/\ options.sshPrivateKey # NoKey
        /\ gitVersion[1] = 2
        /\ gitVersion[2] >= 3
        /\ gitVersion[2] < 10) =>
           \A j \in 1..Len(invocations) :
               /\ invocations[j].config = << >>
               /\ invocations[j].env =
                      IF invocations[j].cmd \in {"ls-remote", "fetch"}
                      THEN {<<"GIT_SSH_COMMAND", ExpectedSsh>>} ELSE {}
    /\ \A j \in 1..Len(invocations) :
           invocations[j].config = << >> \/ invocations[j].env = {}

\* A poll on git 2.9 with a private key and known hosts has run ls-remote,
\* fetch and rev-parse and has ended.
C24_Witness ==
    /\ options.sshPrivateKey # NoKey
    /\ options.host = "sshKnownHosts"
    /\ gitVersion = <<2, 9>>
    /\ outcome = "completed"
    /\ Ran("ls-remote") /\ Ran("fetch") /\ Ran("rev-parse")

\* C25: with sshPrivateKey set and a git older than 2.3, a poll ends with
\* EnvironmentError right after git --version: that is its only git
\* command, no scratch directory is made and no key file is written.
C25_OldGit ==
    (/\ options.sshPrivateKey # NoKey
     /\ (gitVersion[1] < 2 \/ (gitVersion[1] = 2 /\ gitVersion[2] < 3))
     /\ invocations # << >>) =>
        /\ outcome = "EnvironmentError"
        /\ at = Idle
        /\ Len(invocations) = 1
        /\ invocations[1].cmd = "--version"
        /\ invocations[1].config = << >> /\ invocations[1].env = {}
        /\ fsLog = << >>
        /\ scratch = << >>

\* Two polls on git 1.7 with a private key and a host key have been
\* started.
C25_Witness ==
    /\ options.sshPrivateKey # NoKey
    /\ options.host = "sshHostKey"
    /\ gitVersion = <<1, 7>>
    /\ outcome = "EnvironmentError"
    /\ sshBudget = MaxSshPolls - 2

\* C26: construction fails with a configuration error exactly when branch
\* and branches are both given, only_tags comes with branch or branches, or
\* fetch_refspec is given; a poller that failed to construct never polls,
\* and no poll ends in a configuration error.
C26_ConfigError ==
    /\ built # "none" =>
           built = IF \/ options.branch /\ options.branches
                      \/ options.only_tags /\ options.branch
                      \/ options.only_tags /\ options.branches
                      \/ options.fetch_refspec
                   THEN "ConfigError" ELSE "ok"
    /\ built = "ConfigError" => (invocations = << >> /\ outcome = "none" /\ at = Idle)
    /\ invocations # << >> => built = "ok"
    /\ outcome # "ConfigError"
    /\ result # "ConfigError"

\* GitPoller(only_tags=True, branch=...) has been rejected.
C26_Witness ==
    /\ built = "ConfigError"
    /\ options.only_tags
    /\ options.branch
    /\ ~options.branches
    /\ ~options.fetch_refspec

----------------------------------------------------------------------------

\* The last poll was ended by a metadata extraction that failed for the
\* first commit of revList, a commit of branches[idx].
MetadataFailed ==
    /\ pc = "idle"
    /\ result = "EnvironmentError"
    /\ cmds # << >>
    /\ LastCmd.cmd = "log"

\* C27: when the metadata extraction fails for a commit of a branch's list
\* of new commits, the commits before it have been submitted, that commit
\* and every commit after it in the list are not submitted, and the cursor
\* entry of the branch is what it was when the poll started (none if it had
\* none).
C27_MetadataFailure ==
    MetadataFailed =>
        LET b == branches[idx]
        IN /\ LastCmd.branch = b
           /\ revList # << >>
           /\ RevisionsOf(changesAdded, _removeHeads(b)) \o revList =
                  IF logOut[b] # << >> THEN Reverse(logOut[b]) ELSE <<Tip(b)>>
           /\ \A sha \in SeqRange(revList) : Count(changesAdded, _removeHeads(b), sha) = 0
           /\ IF b \in DOMAIN preLastRev
              THEN b \in DOMAIN lastRev /\ lastRev[b] = preLastRev[b]
              ELSE b \notin DOMAIN lastRev

\* The metadata extraction failed for the first of two new commits of a
\* branch that had a cursor entry.
C27_Witness ==
    /\ MetadataFailed
    /\ Len(revList) = 2
    /\ branches[idx] \in DOMAIN preLastRev
    /\ preLastRev[branches[idx]] # Tip(branches[idx])

\* The service has been started and no poll has run since.
Started == result \in {"started", "restarted"}

\* C28: when the service has been started, the cursor is the map the state
\* store holds under lastRev for this poller, or the empty map when the
\* store holds nothing; starting submits no change and runs no git
\* command.
C28_StartService ==
    Started =>
        /\ pc = "idle"
        /\ lastRev = IF state = << >> THEN EmptyMap ELSE state.lastRev
        /\ changesAdded = << >>
        /\ cmds = << >>
        /\ invocations = << >>

\* The service has been started over a persisted map of two branches, one
\* of which has moved on the remote since.
C28_Witness ==
    /\ Started
    /\ state # << >>
    /\ Cardinality(DOMAIN lastRev) = 2
    /\ \E b \in DOMAIN lastRev : Tip(b) \notin {0, lastRev[b]}

\* C29: whenever a poll has run to its end, also one that found nothing
\* new, the state store holds under lastRev the very map the cursor is; and
\* every write to the state store writes the whole cursor as it is after
\* that step, never a part of it.
C29_WholeCursorPersisted ==
    /\ [](Completed => (state # << >> /\ state.lastRev = lastRev))
    /\ [][state' # state => (state' # << >> /\ state'.lastRev = lastRev')]_vars

\* A poll over a persisted cursor of two branches has ended without
\* finding anything new, and the store holds that cursor.
C29_Witness ==
    /\ Completed
    /\ running
    /\ preState # << >>
    /\ Cardinality(DOMAIN lastRev) = 2
    /\ lastRev = preLastRev
    /\ changesAdded = << >>
    /\ state.lastRev = lastRev

\* The polled branches the cursor had no entry for when the poll started:
\* each is processed once, so it has none when it is processed either.
FirstSighted == {b \in Polled : b \notin DOMAIN preLastRev}

----------------------------------------------------------------------------
\* The step appends a git log command to the commands of the poll.
LogIssued == Len(cmds') = Len(cmds) + 1 /\ cmds'[Len(cmds')].cmd = "log"

\* The last command of the poll so far, when it is a git log.
LastIsLog == cmds # << >> /\ cmds[Len(cmds)].cmd = "log"

\* No sha twice, and the smaller before the larger.
StrictlyAscending(s) == \A i, j \in 1..Len(s) : i < j => s[i] < s[j]

\* The arguments are the tip followed by exactly the exclusions, each once,
\* in ascending order.
LogArgs(args, new, excl) ==
    /\ args # << >>
    /\ Head(args) = new
    /\ SeqRange(Tail(args)) = excl
    /\ StrictlyAscending(Tail(args))

\* C31 as stated: the arguments of git log are the new tip followed by the
\* shas then in the cursor, each once, in ascending order, the new tip
\* itself left out of the exclusions.
C31_Original ==
    [][LogIssued =>
          LogArgs(cmds'[Len(cmds')].args, newRev, Range(lastRev) \ {newRev})]_vars

\* C31: the arguments of git log are the new tip followed by the shas then
\* in the cursor (the entry of the branch, of every other branch, polled or
\* not), each once, in ascending order; a cursor entry equal to the new tip
\* is excluded like any other.
C31_LogArguments ==
    [][LogIssued =>
          /\ lastRev # EmptyMap
          /\ cmds'[Len(cmds')].branch = branches[idx]
          /\ LogArgs(cmds'[Len(cmds')].args, newRev, Range(lastRev))]_vars

\* git log has just been run for a tip that the cursor holds, against
\* two exclusions, one of them the tip itself.
C31_Witness ==
    /\ LastIsLog
    /\ Len(cmds[Len(cmds)].args) = 3
    /\ cmds[Len(cmds)].args[1] \in {cmds[Len(cmds)].args[2], cmds[Len(cmds)].args[3]}

\* The branches of the poll processed before branches[idx] whose rev-parse
\* succeeded.
EarlierParsed == {branches[j] : j \in 1..(idx - 1)} \cap Parsed

\* C32 as stated: the exclusions of every git log of a poll are taken from
\* the cursor as it was when the poll started, so that for a branch
\* processed later they hold the previous tips of the branches processed
\* before it and never their new tips.
C32_Original ==
    [][LogIssued =>
          SeqRange(Tail(cmds'[Len(cmds')].args)) = Range(preLastRev)]_vars

\* C32: the exclusions of a git log are taken from the cursor as it is
\* when the branch is processed: the new tip of every branch processed
\* before it in this poll whose rev-parse succeeded, and the entry from
\* before the poll of every other key.
C32_LiveExcludes ==
    [][LogIssued =>
          SeqRange(Tail(cmds'[Len(cmds')].args)) =
              {Tip(b) : b \in EarlierParsed}
                  \cup {preLastRev[k] : k \in DOMAIN preLastRev \ EarlierParsed}]_vars

\* git log has just been run for the second branch of a poll with the new
\* tip of the first among its exclusions and the previous tip of the first
\* not among them.
C32_Witness ==
    /\ LastIsLog
    /\ idx = 2
    /\ pc = "emit"
    /\ branches[1] \in DOMAIN preLastRev
    /\ branches[1] \in DOMAIN lastRev
    /\ lastRev[branches[1]] # preLastRev[branches[1]]
    /\ lastRev[branches[1]] \in SeqRange(Tail(cmds[Len(cmds)].args))
    /\ preLastRev[branches[1]] \notin SeqRange(Tail(cmds[Len(cmds)].args))

----------------------------------------------------------------------------
\* The polled branches from whose new tip the commit is reachable.
Reaching(c) == {b \in Polled : c \in Reach(Tip(b))}

\* The commit was reachable from no cursor entry when the poll started and
\* is reachable from the new tip of two polled branches or more.
NewlyShared(c) ==
    /\ preLastRev # EmptyMap
    /\ \A k \in DOMAIN preLastRev : c \notin Reach(preLastRev[k])
    /\ Cardinality(Reaching(c)) >= 2

\* The first branch in processing order from whose new tip the commit is
\* reachable.
FirstReaching(c) ==
    branches[CHOOSE j \in 1..Len(branches) :
                 /\ branches[j] \in Reaching(c)
                 /\ \A i \in 1..(j - 1) : branches[i] \notin Reaching(c)]

\* The changes of the last poll that carry the sha.
ChangesOf(sha) == {j \in 1..Len(changesAdded) : changesAdded[j].revision = sha}

\* The sha was submitted once in the last poll, for the first branch that
\* reaches it.
OnceForFirst(c) ==
    /\ Cardinality(ChangesOf(c)) = 1
    /\ \A j \in ChangesOf(c) : changesAdded[j].branch = _removeHeads(FirstReaching(c))

\* No sha was ever submitted twice, for the same branch or for two.
ShaNeverTwice ==
    /\ ~resubmitted
    /\ \A p, q \in submitted : p[2] = q[2] => p = q

\* Every rev-parse and every git log of the poll succeeded.
NoSoftFailure == Failures("rev-parse") = 0 /\ Failures("log") = 0

----------------------------------------------------------------------------
\* The order of the git commands that come before the branches.
PrologueOrder == <<"--version", "init", "ls-remote", "fetch">>

\* C34: the git commands of a poll come in one order: git --version, git
\* init, git ls-remote, one git fetch that names every selected branch, and
\* then branch by branch a rev-parse with, when the cursor holds something,
\* its git log right behind it.  No rev-parse comes before the fetch and
\* between the rev-parse and the log of a branch no command of another
\* branch is run.
C34_CommandOrder ==
    /\ \A j \in 1..Len(cmds) :
           IF j <= 4 THEN cmds[j].cmd = PrologueOrder[j]
           ELSE /\ cmds[j].cmd \in {"rev-parse", "log"}
                /\ cmds[4].exit = 0
                /\ cmds[4].args = branches
    /\ \A j \in 1..Len(cmds) :
           cmds[j].cmd = "log" =>
               /\ cmds[j - 1].cmd = "rev-parse"
               /\ cmds[j - 1].exit = 0
               /\ cmds[j - 1].branch = cmds[j].branch
    /\ \A j \in 1..Len(cmds) :
           (cmds[j].cmd = "rev-parse" /\ cmds[j].exit = 0 /\ preLastRev # EmptyMap) =>
               IF j < Len(cmds)
               THEN cmds[j + 1].cmd = "log" /\ cmds[j + 1].branch = cmds[j].branch
               ELSE pc = "log"
    /\ LET parsed == BranchesOf(cmds, "rev-parse")
       IN Len(parsed) <= Len(branches) /\ parsed = SubSeq(branches, 1, Len(parsed))

\* A poll of two branches over a cursor has ended after eight commands.
C34_Witness ==
    /\ Completed
    /\ preLastRev # EmptyMap
    /\ CmdNames = PrologueOrder \o <<"rev-parse", "log", "rev-parse", "log">>
    /\ cmds[5].branch # cmds[7].branch

----------------------------------------------------------------------------
\* The last poll ended without going through all its branches: a git
\* command of the prologue or the feature probe failed, a commit's metadata
\* could not be read, or doPoll.running was false.
EndedEarly == pc = "idle" /\ result \in {"EnvironmentError", "GitError", "returned", "stopped"}

\* C35: the state store is written in no step of a poll but the one that
\* ends it after the last branch, so at most once per poll and after every
\* change of the poll has been submitted; while changes are submitted the
\* store holds what it held when the poll started, and a poll that ends
\* early, by a hard failure or because it was stopped, leaves it so.
C35_StoreWrittenLast ==
    /\ [](EndedEarly => state = preState)
    /\ [][state' # state =>
             /\ pc # "idle"
             /\ pc' = "idle"
             /\ result' = "completed"
             /\ idx > Len(branches)
             /\ revList = << >>
             /\ changesAdded' = changesAdded]_vars
    /\ [][Len(changesAdded') > Len(changesAdded) => (state = preState /\ state' = state)]_vars

\* A poll has submitted changes for two branches and then written a
\* cursor to the state store that differs from what the store held.
C35_Witness ==
    /\ Completed
    /\ preState # << >>
    /\ state # preState
    /\ \E i, j \in 1..Len(changesAdded) : changesAdded[i].branch # changesAdded[j].branch

----------------------------------------------------------------------------
\* The words git prints for its version in the outputs considered.
VersionWords == {"1.7.5", "2.3.0", "2.9.0", "2.10.0"}

\* The output begins with "git version" and a version follows.
CarriesVersion(out) ==
    /\ Len(out) >= 3
    /\ SubSeq(out, 1, 2) = <<"git", "version">>
    /\ out[3] \in VersionWords

\* C36: when git --version exits with 0 and its output does not begin
\* with "git version" or carries no version after it, the feature probe
\* fails with EnvironmentError, the poll runs no further git command,
\* submits nothing and leaves the cursor and the state store as they were.
C36_BadVersionOutput ==
    (versionStdout # << >> /\ ~CarriesVersion(versionStdout)) =>
        /\ pc = "idle"
        /\ result = "EnvironmentError"
        /\ CmdNames = <<"--version">>
        /\ cmds[1].exit = 0
        /\ changesAdded = << >>
        /\ lastRev = preLastRev
        /\ state = preState

\* git --version has printed "git" and nothing else to a poller with a
\* cursor, a persisted state and a branch whose tip had moved.
C36_Witness ==
    /\ versionStdout = <<"git">>
    /\ result = "EnvironmentError"
    /\ state # << >>
    /\ \E b \in DOMAIN lastRev : Tip(b) \notin {0, lastRev[b]}

----------------------------------------------------------------------------
\* The extractor call ended with an exception.
Failed(call) == call.result.raised # "none"

\* C38: every metadata extractor raises when its git command exits
\* non-zero.  When the command exits with 0 and prints nothing, the author,
\* committer and timestamp extractors raise, the comments extractor
\* returns the empty text and the files extractor the empty list.
C38_Extractors ==
    \A j \in 1..Len(extraction) :
        LET call == extraction[j]
        IN /\ call.exit # 0 => Failed(call)
           /\ (call.exit = 0 /\ call.stdout = << >>) =>
                  CASE call.method \in {"author", "committer", "timestamp"} -> Failed(call)
                    [] call.method = "comments" -> call.result = Returned([text |-> << >>])
                    [] call.method = "files" -> call.result = Returned([list |-> << >>])

\* The comments extractor has returned on an empty output and the author
\* extractor has raised on one.
C38_Witness ==
    /\ \E j \in 1..Len(extraction) :
           /\ extraction[j].method = "comments"
           /\ extraction[j].exit = 0
           /\ extraction[j].stdout = << >>
           /\ ~Failed(extraction[j])
    /\ \E j \in 1..Len(extraction) :
           /\ extraction[j].method = "author"
           /\ extraction[j].exit = 0
           /\ extraction[j].stdout = << >>
           /\ Failed(extraction[j])

----------------------------------------------------------------------------
\* Two pollers sharing the work directory and the state store.

Master == <<"master">>

\* The start of a poll of poller i: git fetch writes the tip of its
\* repository's master to its tracker ref.
TwoFetch(i) ==
    /\ fleet.at[i] = "idle"
    /\ fleet.polls[i] < MaxTwoPolls
    /\ fleet' = [fleet EXCEPT !.workdir[TrackerOf(i)] = fleet.remotes[RepourlOf(i)],
                              !.fetched[i] = fleet.remotes[RepourlOf(i)],
                              !.changes[i] = << >>,
                              !.polls[i] = @ + 1,
                              !.at[i] = "fetched",
                              !.actor = i]
    /\ UNCHANGED <<pollvars, creds, versionStdout, extraction>>

\* git rev-parse of the tracker ref.
TwoRevParse(i) ==
    /\ fleet.at[i] = "fetched"
    /\ fleet' = [fleet EXCEPT !.newRev[i] = fleet.workdir[TrackerOf(i)],
                              !.at[i] = "parsed",
                              !.actor = i]
    /\ UNCHANGED <<pollvars, creds, versionStdout, extraction>>

\* git log of the new tip against the cursor and the submission of its
\* commits, oldest first; nothing on the first sighting of the branch.
TwoProcess(i) ==
    /\ fleet.at[i] = "parsed"
    /\ fleet' = [fleet EXCEPT !.changes[i] =
                                  IF Master \in DOMAIN fleet.lastRev[i]
                                  THEN Reverse(GitLog(fleet.newRev[i],
                                                      Excludes(fleet.lastRev[i])))
                                  ELSE << >>,
                              !.at[i] = "processed",
                              !.actor = i]
    /\ UNCHANGED <<pollvars, creds, versionStdout, extraction>>

\* The end of the poll: the cursor is replaced and written to the poller's
\* object of the state store.
TwoFinish(i) ==
    /\ fleet.at[i] = "processed"
    /\ LET cur == FinalCursor(fleet.lastRev[i], Put(EmptyMap, Master, fleet.newRev[i]))
       IN fleet' = [fleet EXCEPT !.lastRev[i] = cur,
                                 !.objects[StoreKey(i)] = Persisted(@, cur),
                                 !.alone[i] = Put(EmptyMap, Master, fleet.fetched[i]),
                                 !.at[i] = "idle",
                                 !.actor = i]
    /\ UNCHANGED <<pollvars, creds, versionStdout, extraction>>

\* Poller i is activated again: it reads its cursor back from the store.
TwoRestart(i) ==
    /\ fleet.at[i] = "idle"
    /\ fleet.polls[i] > 0
    /\ fleet' = [fleet EXCEPT !.lastRev[i] = GetLastRev(fleet.objects[StoreKey(i)]),
                              !.actor = i]
    /\ UNCHANGED <<pollvars, creds, versionStdout, extraction>>

\* Somebody pushes to the master of the repository at url.
TwoPush(url, c) ==
    /\ fleet.remotes[url] < c
    /\ fleet' = [fleet EXCEPT !.remotes[url] = c, !.actor = "remote"]
    /\ UNCHANGED <<pollvars, creds, versionStdout, extraction>>

InitTwo ==
    /\ remote = [r \in RemoteRefs |-> 0]
    /\ branchesCfg = ListPolicy({<<"master">>})
    /\ buildPushesWithNoCommits = FALSE
    /\ budget = 0
    /\ recording = FALSE
    /\ Fresh
    /\ NoCredentials
    /\ extraction = << >>
    /\ fleet \in {AtRest(rem) : rem \in [{RepourlOf(i) : i \in Instances} -> 1..2]}

NextTwo ==
    \/ \E i \in Instances : TwoFetch(i)
    \/ \E i \in Instances : TwoRevParse(i)
    \/ \E i \in Instances : TwoProcess(i)
    \/ \E i \in Instances : TwoFinish(i)
    \/ \E i \in Instances : TwoRestart(i)
    \/ \E i \in Instances, c \in 1..MaxTwoCommit : TwoPush(RepourlOf(i), c)

SpecTwo == InitTwo /\ [][NextTwo]_vars

\* What poller i submits in the poll it is in when nobody else is there:
\* the commits of the tip it fetched that its own last completed poll had
\* not reached.
AloneChanges(i) ==
    IF Master \in DOMAIN fleet.alone[i]
    THEN Reverse(GitLog(fleet.fetched[i], Range(fleet.alone[i])))
    ELSE << >>

\* The step just taken was a step of another poller than i.
OtherActed(i) == fleet'.actor \in Instances \ {i}

\* C39: two pollers with different names that share the state store (and
\* the work directory) do not affect each other in any interleaving of
\* their polls: a step of one leaves the other's cursor in memory and the
\* other's persisted lastRev as they are, and each submits in every poll
\* what it would submit alone and ends on the cursor it would have alone.
C39_Independent ==
    /\ [](\A i \in Instances :
             /\ fleet.at[i] = "processed" => fleet.changes[i] = AloneChanges(i)
             /\ fleet.at[i] = "idle" => fleet.lastRev[i] = fleet.alone[i])
    /\ [][\A i \in Instances :
             OtherActed(i) =>
                 /\ fleet'.lastRev[i] = fleet.lastRev[i]
                 /\ GetLastRev(fleet'.objects[StoreKey(i)])
                        = GetLastRev(fleet.objects[StoreKey(i)])]_vars

\* Both pollers are in their second poll at once, each about to end it, and
\* have submitted different commits of their repositories.
C39_Witness ==
    /\ \A i \in Instances :
           /\ fleet.at[i] = "processed"
           /\ fleet.polls[i] = 2
           /\ fleet.changes[i] # << >>
    /\ fleet.changes["first"] # fleet.changes["second"]
    /\ fleet.objects[StoreKey("first")] # fleet.objects[StoreKey("second")]

----------------------------------------------------------------------------
\* Termination of poll().

\* The steps inside a poll: each is a subprocess, a change submission or
\* the final write to the state store, and each returns.
PollStep ==
    \/ \E ok \in BOOLEAN : RevParse(ok)
    \/ \E ok \in BOOLEAN : ProcessChanges(ok)
    \/ \E ok \in BOOLEAN : EmitChange(ok)
    \/ Finish

\* A call of poll(), however it ends.
PollCall ==
    \/ \E stage \in Stages \ {"fetch"}, code \in {1, 128} : PollFail(stage, code, << >>)
    \/ \E order \in Orders(Present(remote)), code \in {1, 128} : PollFail("fetch", code, order)
    \/ \E out \in BadOutputs : PollProbeFail(out)
    \/ \E order \in Orders(Present(remote)) : PollNotRunning(order)
    \/ \E order \in Orders(Present(remote)) : PollBegin(order)

InitTerm ==
    /\ remote \in [RemoteRefs -> 0..MaxTermCommit]
    /\ branchesCfg \in Policies
    /\ buildPushesWithNoCommits \in BOOLEAN
    /\ budget = MaxTermPolls
    /\ recording = FALSE
    /\ Fresh
    /\ extraction = << >>
    /\ fleet = Apart
    /\ NoCredentials

NextTerm ==
    \/ PollCall
    \/ PollStep
    \/ \E r \in RemoteRefs, c \in 0..MaxTermCommit : Push(r, c)
    \/ Restart

\* A poll that has started is not left alone: whatever it waits for
\* returns.
SpecTerm == InitTerm /\ [][NextTerm]_vars /\ WF_vars(PollStep)

\* The last poll has ended, in one of the ways a poll ends.
Ended(how) == pc = "idle" /\ result = how

\* C40: when everything poll() waits for returns, every poll ends and the
\* poller is idle again: a poll in progress leads to an idle poller, with
\* or without soft failures on its way; a poll that has failed hard,
\* returned early or completed has left the poller idle; and an idle poller
\* that is still to poll can start its next poll.
C40_PollTerminates ==
    /\ (pc # "idle") ~> (pc = "idle")
    /\ (pc # "idle" /\ errors > 0) ~> (pc = "idle" /\ errors > 0)
    /\ [](result \in {"EnvironmentError", "GitError", "returned", "stopped", "completed"}
             => pc = "idle")
    /\ [](pc = "idle" /\ budget > 0 => ENABLED PollCall)

\* A poll in which the rev-parse of a branch failed has run to its end
\* over the other branch, and the poller is idle with a poll still to come.
C40_Witness ==
    /\ Ended("completed")
    /\ Failures("rev-parse") > 0
    /\ Len(branches) = 2
    /\ errors < 2
    /\ budget > 0

====
